---- MODULE Spec2Model ----
(***************************************************************************)
(* A model of OpenViking's named-queue subsystem (QueueManager and its     *)
(* worker loops, the embedding handler), of the vector index backend and   *)
(* of the VikingFS operations that keep the index consistent.              *)
(***************************************************************************)
EXTENDS Integers, Sequences, FiniteSets, TLC

(***************************************************************************)
(* Bounds of the model.                                                    *)
(***************************************************************************)
MaxMsgs == 3
MaxConcurrentEmbedding == 2
MaxTime == 3
MaxTimeout == 1
MaxRecords == 2
MaxUuids == 2

(***************************************************************************)
(* QueueManager: names, handlers, messages.                                *)
(***************************************************************************)
EMBEDDING == "Embedding"
SEMANTIC == "Semantic"
QueueNames == {EMBEDDING, SEMANTIC}
MsgIds == 1..MaxMsgs

\* URIs are sequences of path segments: viking://resources/a is <<"resources","a">>.
MsgUris == {<<"resources", "a">>}
DrainUris == {<<"resources", "a">>, <<"resources", "b">>}

\* A queue message is opaque JSON to the queue and to the worker: the handler is the
\* first to read it.  The model keeps, per message, the queue and the URI of the context
\* it was made for, and draws the rest of the payload where on_dequeue reads it:
\*   empty    a falsy payload                    badjson  data["data"] does not parse
\*   nonstr   EmbeddingMsg.message is no string  text     a string message
PayloadKinds == {"empty", "badjson", "nonstr", "text"}
ContextTypes == {"resource", "bogus"}
\* A message enqueued with kind or ctype "any" is one of any kind or context type.
KindsOf(msg) == IF msg.kind = "any" THEN PayloadKinds ELSE {msg.kind}
ContextTypesOf(msg) == IF msg.ctype = "any" THEN ContextTypes ELSE {msg.ctype}
HandlerKinds == {"none", "text_embedding", "generic"}

VARIABLES
    started,        \* QueueManager._started
    phase,          \* "live", "stopping" (stop() is joining), "stopped" (stop() returned)
    queues,         \* the keys of QueueManager._queues
    handler,        \* the dequeue handler each queue was created with
    fifo,           \* the messages waiting in each named queue, head first
    in_progress,    \* NamedQueue._in_progress
    processed,      \* NamedQueue._processed (processed_total)
    error_count,    \* NamedQueue._error_count
    thread,         \* the worker thread of each queue
    task,           \* the asyncio task of each dispatched message
    msgs,           \* every message enqueued so far; a message's id is its position
    starts,         \* per message: calls of _on_dequeue_start
    reports,        \* per message: calls of report_success, report_error, _on_process_error
    invocations,    \* per message: handler invocations
    failed,         \* the messages whose handler invocation raised or reported an error
    index,          \* the records of the vector collection
    uuid_ctr,       \* uuid4 values handed out so far
    is_closing,     \* the vector store's is_closing flag
    index0,         \* the records the collection held at the start
    now,            \* time.time(), in poll intervals
    waiter,         \* the wait_complete call in progress, if any
    blobs,          \* the paths of the files in the blob store
    retr,           \* the retrieval in progress: heap, visited, collected, counters
    dag,            \* the semantic executor's nodes and counters
    rels,           \* the relation table of one directory
    bound_ctx,      \* VikingFS._bound_ctx in each task's context, and the open scopes
    last            \* the VikingFS operation that ended last, if none came after it

qvars == <<started, phase, queues, handler, fifo, in_progress,
           processed, error_count, thread, task, msgs, starts, reports, invocations>>
ivars == <<index, uuid_ctr, is_closing>>
svars == <<retr, dag, rels, bound_ctx>>
others == <<index0, svars, now, waiter, blobs, last>>
vars == <<qvars, failed, ivars, others>>

\* No retrieval, executor or relation table is part of the run.
NoRun == retr = <<>> /\ dag = <<>> /\ rels = <<>> /\ bound_ctx = <<>>

(***************************************************************************)
(* The vector index: records and the stable id.                            *)
(***************************************************************************)
\* hashlib.md5(f"{account_id}:{uri}").hexdigest(): one id per (account_id, uri).
StableId(account_id, uri) == <<"md5", account_id, uri>>
\* str(uuid.uuid4()): an id no other record has.
Uuid4(n) == <<"uuid", n>>

ALLOWED_CONTEXT_TYPES == {"resource", "skill", "memory"}

\* coll.upsert_data: the record replaces the one stored under the same id.
upsert_data(idx, rec) == {r \in idx : r.id # rec.id} \cup {rec}

\* VikingVectorIndexBackend.upsert followed by CollectionAdapter.upsert: a record with
\* an invalid context_type is not written (""), a record without an id gets a uuid4.
UpsertId(rec, n) == IF rec.id = <<>> THEN Uuid4(n) ELSE rec.id
UpsertWrites(rec) == rec.context_type \in ALLOWED_CONTEXT_TYPES
upsert(idx, rec, n) ==
    IF UpsertWrites(rec) THEN upsert_data(idx, [rec EXCEPT !.id = UpsertId(rec, n)])
    ELSE idx
UpsertCtr(rec, n) == IF UpsertWrites(rec) /\ rec.id = <<>> THEN n + 1 ELSE n

Parent(uri) == IF Len(uri) = 0 THEN <<>> ELSE SubSeq(uri, 1, Len(uri) - 1)

\* A context's record before it has an id or a vector.
ContextRecord(account_id, uri, owner_space, ctype) ==
    [id |-> <<>>, uri |-> uri, parent_uri |-> Parent(uri), account_id |-> account_id,
     owner_space |-> owner_space, context_type |-> ctype, vector |-> "none",
     active_count |-> 0]

\* The context_data of an embedding message for uri.
ContextData(uri, ctype) == ContextRecord("a1", uri, "", ctype)

\* TextEmbeddingHandler.on_dequeue, "Write to vector database": the id is the md5 of
\* account_id ":" uri when the record has a uri.
HandlerRecord(data) ==
    IF data.uri # <<>> THEN [data EXCEPT !.id = StableId(data.account_id, data.uri)]
    ELSE data

(***************************************************************************)
(* Request contexts, URIs and paths (VikingFS).                            *)
(***************************************************************************)
ROOT == "root"
USER == "user"
Ctx(account_id, role, user_space, agent_space) ==
    [account_id |-> account_id, role |-> role, user_space |-> user_space,
     agent_space |-> agent_space]
Contexts ==
    {Ctx("a1", USER, "u1", "g1"), Ctx("a1", ROOT, "r0", "g0"), Ctx("a2", USER, "u2", "g2")}

\* "L" stands for a path component of more than 255 bytes, "L_h" for what
\* _shorten_component makes of it: a trimmed prefix, "_" and 8 hex digits of its sha256.
LongComponents == {"L"}
shorten_component(c) == IF c \in LongComponents THEN "L_h" ELSE c

\* _uri_to_path: /local/{account_id}/ and the components, each shortened.
uri_to_path(uri, ctx) ==
    <<"local", ctx.account_id>> \o [i \in 1..Len(uri) |-> shorten_component(uri[i])]

\* _path_to_uri of a /local/... path: "local" goes, and so does a leading component
\* that is the account id.
path_to_uri(path, ctx) ==
    LET inner == Tail(path)
    IN IF inner # <<>> /\ Head(inner) = ctx.account_id THEN Tail(inner) ELSE inner

USER_STRUCTURE_DIRS == {"memories"}
AGENT_STRUCTURE_DIRS == {"memories", "skills", "instructions", "workspaces"}
NoSpace == "None"

extract_space_from_uri(uri) ==
    IF Len(uri) < 2 THEN NoSpace
    ELSE IF uri[1] = "user" /\ uri[2] \notin USER_STRUCTURE_DIRS THEN uri[2]
    ELSE IF uri[1] = "agent" /\ uri[2] \notin AGENT_STRUCTURE_DIRS THEN uri[2]
    ELSE IF uri[1] = "session" THEN uri[2]
    ELSE NoSpace

\* A gate that admits every caller everywhere.
AdmitsAll(uri, ctx) == TRUE

\* _is_accessible(uri, ctx)
is_accessible(uri, ctx) ==
    IF ctx.role = ROOT THEN TRUE
    ELSE IF uri = <<>> THEN TRUE
    ELSE IF uri[1] \in {"resources", "temp", "transactions"} THEN TRUE
    ELSE IF uri[1] = "_system" THEN FALSE
    ELSE IF extract_space_from_uri(uri) = NoSpace THEN TRUE
    ELSE IF uri[1] \in {"user", "session"} THEN extract_space_from_uri(uri) = ctx.user_space
    ELSE IF uri[1] = "agent" THEN extract_space_from_uri(uri) = ctx.agent_space
    ELSE TRUE

IsPrefix(base, s) == Len(s) >= Len(base) /\ SubSeq(s, 1, Len(base)) = base
\* uri starts with base + "/".
StartsWithSlash(uri, base) == Len(uri) > Len(base) /\ IsPrefix(base, uri)

INTERNAL_DIRS == {"_system"}
VALID_SCOPES == {"resources", "user", "agent", "session", "temp", "transactions"}

\* _ls_entries filters what _collect walks through: below the account root only the
\* scopes, elsewhere nothing named _system.
Listed(f, path) ==
    /\ StartsWithSlash(f, path)
    /\ \A i \in (Len(path) + 1)..Len(f) :
          IF i = 3 /\ f[1] = "local" THEN f[i] \in VALID_SCOPES
          ELSE f[i] \notin INTERNAL_DIRS

\* _collect_uris: the URIs of the files in path, and below it when recursive.
collect_uris(files, path, recursive, ctx) ==
    {path_to_uri(f, ctx) :
        f \in {g \in files : Listed(g, path) /\ (recursive \/ Len(g) = Len(path) + 1)}}

(***************************************************************************)
(* VikingVectorIndexBackend: delete_uris, update_uri_mapping.              *)
(***************************************************************************)
\* A record that matched on its uri alone.
UriEquals(r, uri) == r.uri = uri

\* Or([Eq("uri", uri), In("uri", [f"{uri}/"])]): the record at uri and those below it.
UriMatches(r, uri) == r.uri = uri \/ StartsWithSlash(r.uri, uri)

\* ctx.role == Role.USER and uri.startswith(("viking://user/", "viking://agent/"))
OwnerScoped(ctx, uri) == ctx.role = USER /\ Len(uri) >= 2 /\ uri[1] \in {"user", "agent"}
ExpectedSpace(ctx, uri) == IF uri[1] = "user" THEN ctx.user_space ELSE ctx.agent_space

\* The filter delete_uris builds for one uri.
DeleteFilter(ctx, uri, r) ==
    /\ r.account_id = ctx.account_id
    /\ UriMatches(r, uri)
    /\ OwnerScoped(ctx, uri) => r.owner_space = ExpectedSpace(ctx, uri)

delete_uris(idx, ctx, uris) ==
    {r \in idx : \A u \in uris : ~DeleteFilter(ctx, u, r)}

\* What filter() returns of a record: query() drops the vectors unless asked for them.
Read(r) == [r EXCEPT !.vector = "none"]

\* update_uri_mapping: the record found by (uri, account_id), with the new URIs.
Remapped(r, new_uri, new_parent_uri) ==
    [Read(r) EXCEPT !.uri = new_uri, !.parent_uri = new_parent_uri]

\* get_context_by_uri(account_id, uri): the records And([Eq(uri), Eq(account_id)]) selects.
get_context_by_uri(idx, account_id, uri) ==
    {r \in idx : r.uri = uri /\ r.account_id = account_id}

\* update_uri_mapping(ctx, uri, new_uri, new_parent_uri): nothing when no record is
\* found; else the record filter(limit=1) returned, any one of those found, is upserted
\* with the new URIs.  The value is the set of the indexes the call can leave.
update_uri_mapping(idx, ctx, uri, new_uri, new_parent_uri, n) ==
    LET records == get_context_by_uri(idx, ctx.account_id, uri)
    IN IF records = {} THEN {idx}
       ELSE {upsert(idx, Remapped(r, new_uri, new_parent_uri), n) : r \in records}

(***************************************************************************)
(* NamedQueue counter surface.                                             *)
(***************************************************************************)
Inc(f, q) == [f EXCEPT ![q] = @ + 1]
Dec(f, q) == [f EXCEPT ![q] = @ - 1]
Bump(f, m) == [f EXCEPT ![m] = @ + 1]

\* _on_dequeue_start: one more message in progress.
OnDequeueStart(q, m) ==
    /\ in_progress' = Inc(in_progress, q)
    /\ starts' = Bump(starts, m)

\* report_success -> _on_process_success.
ReportSuccess(q, m) ==
    /\ in_progress' = Dec(in_progress, q)
    /\ processed' = Inc(processed, q)
    /\ error_count' = error_count
    /\ reports' = Bump(reports, m)

\* report_error -> _on_process_error (also called by process_one's except).
ReportError(q, m) ==
    /\ in_progress' = Dec(in_progress, q)
    /\ error_count' = Inc(error_count, q)
    /\ processed' = processed
    /\ reports' = Bump(reports, m)

NoReport == UNCHANGED <<in_progress, processed, error_count, reports>>

Size(q) == Len(fifo[q])
QueueOf(m) == msgs[m].queue
\* get_status().is_complete: nothing waiting and nothing in progress.
Drained(q) == Size(q) = 0 /\ in_progress[q] = 0

(***************************************************************************)
(* QueueManager: start, get_queue, enqueue, stop.                          *)
(***************************************************************************)
\* A manager that gave every queue the concurrency of the Embedding queue.
MaxConcurrentAll(name) == MaxConcurrentEmbedding

\* _start_queue_worker: the concurrency of a queue's worker.
MaxConcurrentFor(name) == IF name = EMBEDDING THEN MaxConcurrentEmbedding ELSE 1

NoThread ==
    [registered |-> FALSE, alive |-> FALSE, stop |-> FALSE, pc |-> "none",
     active |-> {}, holding |-> 0, maxc |-> 1]
NewThread(name) ==
    [registered |-> TRUE, alive |-> TRUE, stop |-> FALSE, pc |-> "top",
     active |-> {}, holding |-> 0, maxc |-> MaxConcurrentFor(name)]

\* _start_queue_worker: a new thread unless the queue has a live one.
StartQueueWorker(th, name) ==
    IF th[name].registered /\ th[name].alive THEN th
    ELSE [th EXCEPT ![name] = NewThread(name)]

\* start(): nothing when started; else workers for the queues that exist.
RECURSIVE StartAll(_, _)
StartAll(th, names) ==
    IF names = {} THEN th
    ELSE LET n == CHOOSE x \in names : TRUE
         IN StartAll(StartQueueWorker(th, n), names \ {n})

Start ==
    /\ phase = "live"
    /\ ~started
    /\ started' = TRUE
    /\ thread' = StartAll(thread, queues)
    /\ UNCHANGED <<phase, queues, handler, fifo, in_progress,
                   processed, error_count, task, msgs, starts, reports, invocations>>
    /\ UNCHANGED <<failed, ivars, others>>

\* get_queue(name, dequeue_handler=h, allow_create): starts the manager, creates the
\* queue when it is missing and may be created, and makes sure its worker runs.
GetQueue(name, h, allow_create) ==
    /\ phase = "live"
    /\ started' = TRUE
    /\ IF name \notin queues
       THEN IF allow_create
            THEN /\ queues' = queues \cup {name}
                 /\ handler' = [handler EXCEPT ![name] = h]
                 /\ thread' = StartQueueWorker(thread, name)
            ELSE \* RuntimeError
                 UNCHANGED <<queues, handler, thread>>
       ELSE /\ thread' = StartQueueWorker(thread, name)
            /\ UNCHANGED <<queues, handler>>
    /\ UNCHANGED <<phase, fifo, in_progress, processed, error_count, task,
                   msgs, starts, reports, invocations>>
    /\ UNCHANGED <<failed, ivars, others>>

\* NamedQueue.enqueue: the message goes to the tail of the queue.
Enqueue(q, uri, kind, ctype) ==
    /\ phase # "stopped"
    /\ q \in queues
    /\ Len(msgs) < MaxMsgs
    /\ msgs' = Append(msgs, [queue |-> q, uri |-> uri, kind |-> kind, ctype |-> ctype])
    /\ fifo' = [fifo EXCEPT ![q] = Append(@, Len(msgs) + 1)]
    /\ UNCHANGED <<started, phase, queues, handler, in_progress,
                   processed, error_count, thread, task, starts, reports, invocations>>
    /\ UNCHANGED <<failed, ivars, others>>

\* stop(), first loop: every registered stop event is set.
StopBegin ==
    /\ phase = "live"
    /\ started
    /\ phase' = "stopping"
    /\ thread' = [q \in QueueNames |->
                    IF thread[q].registered THEN [thread[q] EXCEPT !.stop = TRUE]
                    ELSE thread[q]]
    /\ UNCHANGED <<started, queues, handler, fifo, in_progress, processed,
                   error_count, task, msgs, starts, reports, invocations>>
    /\ UNCHANGED <<failed, ivars, others>>

\* stop(), second loop and the rest: every thread.join() has returned, so every
\* registered worker thread has exited; the thread and event tables and the queues
\* are cleared and _started is reset.
StopReturn ==
    /\ phase = "stopping"
    /\ \A q \in QueueNames : thread[q].registered => ~thread[q].alive
    /\ phase' = "stopped"
    /\ started' = FALSE
    /\ queues' = {}
    /\ thread' = [q \in QueueNames |-> [thread[q] EXCEPT !.registered = FALSE]]
    /\ UNCHANGED <<handler, fifo, in_progress, processed, error_count, task,
                   msgs, starts, reports, invocations>>
    /\ UNCHANGED <<failed, ivars, others>>

(***************************************************************************)
(* _queue_worker_loop, serial branch (max_concurrent = 1).                 *)
(***************************************************************************)
SetPc(q, pc) == thread' = [thread EXCEPT ![q].pc = pc]
Running(q, pc) == thread[q].alive /\ thread[q].pc = pc
IsSerial(q) == thread[q].maxc <= 1

\* while not stop_event.is_set(): the loop ends and the thread exits once it is set.
SerialExit(q) ==
    /\ Running(q, "top") /\ IsSerial(q)
    /\ thread[q].stop
    /\ thread' = [thread EXCEPT ![q].alive = FALSE, ![q].pc = "exit"]
    /\ UNCHANGED <<started, phase, queues, handler, fifo,
                   in_progress, processed, error_count, task, msgs, starts, reports,
                   invocations>>
    /\ UNCHANGED <<failed, ivars, others>>

\* queue.size() > 0 with a handler: queue.dequeue() removes the head, counts it in
\* progress and invokes the handler.
SerialDequeue(q) ==
    /\ Running(q, "top") /\ IsSerial(q)
    /\ ~thread[q].stop
    /\ handler[q] # "none" /\ Size(q) > 0
    /\ LET m == Head(fifo[q])
       IN /\ fifo' = [fifo EXCEPT ![q] = Tail(@)]
          /\ OnDequeueStart(q, m)
          /\ invocations' = Bump(invocations, m)
          /\ thread' = [thread EXCEPT ![q].pc = "handling", ![q].holding = m]
    /\ UNCHANGED <<started, phase, queues, handler, processed,
                   error_count, task, msgs, reports>>
    /\ UNCHANGED <<failed, ivars, others>>

\* The handler of a serial queue reports success or an error and returns.
SerialHandled(q, ok) ==
    /\ Running(q, "handling") /\ IsSerial(q)
    /\ IF ok THEN ReportSuccess(q, thread[q].holding) ELSE ReportError(q, thread[q].holding)
    /\ failed' = IF ok THEN failed ELSE failed \cup {thread[q].holding}
    /\ thread' = [thread EXCEPT ![q].pc = "top", ![q].holding = 0]
    /\ UNCHANGED <<started, phase, queues, handler, fifo, task,
                   msgs, starts, invocations>>
    /\ UNCHANGED <<ivars, others>>

\* The handler raises out of queue.dequeue(): the loop's "except Exception" logs the
\* error and waits one poll interval; no counter is touched.
SerialRaised(q) ==
    /\ Running(q, "handling") /\ IsSerial(q)
    /\ NoReport
    /\ failed' = failed \cup {thread[q].holding}
    /\ thread' = [thread EXCEPT ![q].pc = "top", ![q].holding = 0]
    /\ UNCHANGED <<started, phase, queues, handler, fifo, task,
                   msgs, starts, invocations>>
    /\ UNCHANGED <<ivars, others>>

\* No handler, an empty queue, or size() raising: stop_event.wait(poll_interval), and
\* the loop starts over.
SerialIdle(q, size_raises) ==
    /\ Running(q, "top") /\ IsSerial(q)
    /\ ~thread[q].stop
    /\ size_raises \/ handler[q] = "none" \/ Size(q) = 0
    /\ SetPc(q, "top")
    /\ UNCHANGED <<started, phase, queues, handler, fifo,
                   in_progress, processed, error_count, task, msgs, starts, reports,
                   invocations>>
    /\ UNCHANGED <<failed, ivars, others>>

(***************************************************************************)
(* _worker_async_concurrent (max_concurrent > 1).                          *)
(***************************************************************************)
\* while not stop_event.is_set(): once set, the loop is left for the final gather.
WorkerStopSeen(q) ==
    /\ Running(q, "top") /\ ~IsSerial(q)
    /\ thread[q].stop
    /\ SetPc(q, "drain")
    /\ UNCHANGED <<started, phase, queues, handler, fifo,
                   in_progress, processed, error_count, task, msgs, starts, reports,
                   invocations>>
    /\ UNCHANGED <<failed, ivars, others>>

\* Prune completed tasks: active_tasks = {t for t in active_tasks if not t.done()}.
Pruned(active) == {m \in active : task[m] # "done"}

WorkerPrune(q) ==
    /\ Running(q, "top") /\ ~IsSerial(q)
    /\ ~thread[q].stop
    /\ thread' = [thread EXCEPT ![q].active = Pruned(@), ![q].pc = "inner"]
    /\ UNCHANGED <<started, phase, queues, handler, fifo,
                   in_progress, processed, error_count, task, msgs, starts, reports,
                   invocations>>
    /\ UNCHANGED <<failed, ivars, others>>

\* while len(active_tasks) < max_concurrent
HasCapacity(q) == Cardinality(thread[q].active) < thread[q].maxc
\* if not queue.has_dequeue_handler() or queue_size == 0: break
NothingToDo(q) == handler[q] = "none" \/ Size(q) = 0

\* The inner loop ends (no capacity, size() raised, no handler or an empty queue);
\* after asyncio.sleep(poll_interval) the outer loop starts over.
WorkerBreak(q, size_raises) ==
    /\ Running(q, "inner") /\ ~IsSerial(q)
    /\ ~HasCapacity(q) \/ size_raises \/ NothingToDo(q)
    /\ SetPc(q, "top")
    /\ UNCHANGED <<started, phase, queues, handler, fifo,
                   in_progress, processed, error_count, task, msgs, starts, reports,
                   invocations>>
    /\ UNCHANGED <<failed, ivars, others>>

\* data = await queue.dequeue_raw(): the head leaves the queue, no counter moves.
WorkerDequeueRaw(q) ==
    /\ Running(q, "inner") /\ ~IsSerial(q)
    /\ HasCapacity(q) /\ ~NothingToDo(q)
    /\ fifo' = [fifo EXCEPT ![q] = Tail(@)]
    /\ thread' = [thread EXCEPT ![q].holding = Head(fifo[q]), ![q].pc = "dispatch"]
    /\ UNCHANGED <<started, phase, queues, handler, in_progress,
                   processed, error_count, task, msgs, starts, reports, invocations>>
    /\ UNCHANGED <<failed, ivars, others>>

\* A worker that made a task for the message and for every earlier one.
TasksUpTo(m) == 1..m

\* The tasks asyncio.create_task(process_one(data)) makes for a dequeued message.
TasksFor(m) == {m}

\* queue._on_dequeue_start(); task = asyncio.create_task(process_one(data));
\* active_tasks.add(task)
WorkerDispatch(q) ==
    /\ Running(q, "dispatch") /\ ~IsSerial(q)
    /\ LET m == thread[q].holding
       IN /\ OnDequeueStart(q, m)
          /\ task' = [t \in MsgIds |-> IF t \in TasksFor(m) THEN "created" ELSE task[t]]
          /\ thread' = [thread EXCEPT ![q].active = @ \cup TasksFor(m),
                                      ![q].holding = 0, ![q].pc = "inner"]
    /\ UNCHANGED <<started, phase, queues, handler, fifo,
                   processed, error_count, msgs, reports, invocations>>
    /\ UNCHANGED <<failed, ivars, others>>

\* await asyncio.gather(*active_tasks): the worker returns, and its thread exits, once
\* every task it still holds is done.
WorkerDrained(q) ==
    /\ Running(q, "drain") /\ ~IsSerial(q)
    /\ \A m \in thread[q].active : task[m] = "done"
    /\ thread' = [thread EXCEPT ![q].alive = FALSE, ![q].pc = "exit"]
    /\ UNCHANGED <<started, phase, queues, handler, fifo,
                   in_progress, processed, error_count, task, msgs, starts, reports,
                   invocations>>
    /\ UNCHANGED <<failed, ivars, others>>

(***************************************************************************)
(* process_one and the handlers it runs.                                   *)
(***************************************************************************)
InFlight(q) == {m \in 1..Len(msgs) : msgs[m].queue = q /\ task[m] = "running"}
\* async with sem: a permit is free.
SemFree(q) == Cardinality(InFlight(q)) < thread[q].maxc
SetTask(m, st) == task' = [task EXCEPT ![m] = st]
Created(m) == m \in 1..Len(msgs) /\ task[m] = "created" /\ thread[QueueOf(m)].alive
IsRunning(m) == m \in 1..Len(msgs) /\ task[m] = "running" /\ thread[QueueOf(m)].alive

\* A handler other than the embedding handler starts on the message.
GenericStart(m) ==
    /\ Created(m) /\ handler[QueueOf(m)] = "generic" /\ SemFree(QueueOf(m))
    /\ SetTask(m, "running")
    /\ invocations' = Bump(invocations, m)
    /\ UNCHANGED <<started, phase, queues, handler, fifo,
                   in_progress, processed, error_count, thread, msgs, starts, reports>>
    /\ UNCHANGED <<failed, ivars, others>>

\* It returns after calling report_success or report_error.
GenericReport(m, ok) ==
    /\ IsRunning(m) /\ handler[QueueOf(m)] = "generic"
    /\ IF ok THEN ReportSuccess(QueueOf(m), m) ELSE ReportError(QueueOf(m), m)
    /\ failed' = IF ok THEN failed ELSE failed \cup {m}
    /\ SetTask(m, "done")
    /\ UNCHANGED <<started, phase, queues, handler, fifo, thread,
                   msgs, starts, invocations>>
    /\ UNCHANGED <<ivars, others>>

\* It raises without reporting: process_one's except calls queue._on_process_error.
ProcessOneExcept(m) ==
    /\ IsRunning(m) /\ handler[QueueOf(m)] = "generic"
    /\ ReportError(QueueOf(m), m)
    /\ failed' = failed \cup {m}
    /\ SetTask(m, "done")
    /\ UNCHANGED <<started, phase, queues, handler, fifo, thread,
                   msgs, starts, invocations>>
    /\ UNCHANGED <<ivars, others>>

(***************************************************************************)
(* TextEmbeddingHandler.on_dequeue.                                        *)
(***************************************************************************)
EmbedResults == {"raise", "ok", "baddim", "nodense"}

\* Up to the embedder call: what the handler reports before it returns, or "embed"
\* when it goes on to self._embedder.embed.
EmbeddingStartOutcome(kind, closing, embedder_ok) ==
    CASE kind = "empty" -> "return"        \* if not data: return None
      [] kind = "badjson" -> "error"       \* json.loads / from_dict raise: outer except
      [] closing -> "success"              \* self._vikingdb.is_closing
      [] kind = "nonstr" -> "success"      \* not isinstance(message, str)
      [] ~embedder_ok -> "error"           \* "Embedder not initialized"
      [] OTHER -> "embed"

\* A handler that never wrote to the vector database.
NeverUpserts(res, db_fail) == FALSE

\* Whether the handler reaches self._vikingdb.upsert and the call does not raise.
\* A handler that writes whatever the embedder returned.
UpsertsAnyDimension(res, db_fail) == res \in {"ok", "nodense", "baddim"} /\ ~db_fail

EmbeddingUpserts(res, db_fail) == res \in {"ok", "nodense"} /\ ~db_fail

\* From the embedder's result on: report_success or report_error.
\*   raise    embed raised: outer except         baddim  dimension mismatch
\*   db_fail  upsert raised: success when the store is closing, else an error
\*   nodense  no dense vector: the record is written, then the debug line's
\*            inserted_data['vector'] raises into the same except
EmbeddingFinishOutcome(res, db_fail, closing, written) ==
    CASE res \in {"raise", "baddim"} -> "error"
      [] db_fail -> IF closing THEN "success" ELSE "error"
      [] res = "nodense" /\ written -> IF closing THEN "success" ELSE "error"
      [] OTHER -> "success"

Report(outcome, q, m) ==
    /\ CASE outcome = "success" -> ReportSuccess(q, m)
         [] outcome = "error" -> ReportError(q, m)
         [] OTHER -> NoReport
    /\ failed' = IF outcome = "error" THEN failed \cup {m} ELSE failed

MsgData(m, ctype, res) ==
    [ContextData(msgs[m].uri, ctype) EXCEPT !.vector = IF res = "ok" THEN "vec" ELSE "none"]

EmbeddingStart(m, kind, embedder_ok) ==
    /\ Created(m) /\ handler[QueueOf(m)] = "text_embedding" /\ SemFree(QueueOf(m))
    /\ kind \in KindsOf(msgs[m])
    /\ invocations' = Bump(invocations, m)
    /\ LET out == EmbeddingStartOutcome(kind, is_closing, embedder_ok)
       IN /\ Report(out, QueueOf(m), m)
          /\ SetTask(m, IF out = "embed" THEN "running" ELSE "done")
    /\ UNCHANGED <<started, phase, queues, handler, fifo, thread,
                   msgs, starts>>
    /\ UNCHANGED <<ivars, others>>

EmbeddingWrite(m, ctype, res, db_fail) ==
    /\ IsRunning(m) /\ handler[QueueOf(m)] = "text_embedding"
    /\ ctype \in ContextTypesOf(msgs[m])
    /\ LET rec == HandlerRecord(MsgData(m, ctype, res))
           written == EmbeddingUpserts(res, db_fail) /\ UpsertWrites(rec)
       IN /\ index' = IF EmbeddingUpserts(res, db_fail)
                      THEN upsert(index, rec, uuid_ctr) ELSE index
          /\ uuid_ctr' = IF EmbeddingUpserts(res, db_fail)
                         THEN UpsertCtr(rec, uuid_ctr) ELSE uuid_ctr
          /\ Report(EmbeddingFinishOutcome(res, db_fail, is_closing, written),
                    QueueOf(m), m)
    /\ SetTask(m, "done")
    /\ UNCHANGED <<started, phase, queues, handler, fifo, thread,
                   msgs, starts, invocations, is_closing>>

\* The rest of on_dequeue: the embedding, the dimension check, the write, the report.
EmbeddingFinish(m, ctype, res, db_fail) ==
    /\ EmbeddingWrite(m, ctype, res, db_fail)
    /\ UNCHANGED others

\* The vector store starts to close: is_closing is set.
CloseStore ==
    /\ ~is_closing
    /\ is_closing' = TRUE
    /\ UNCHANGED <<index, uuid_ctr>>
    /\ UNCHANGED <<qvars, failed, others>>

\* The value of last when no VikingFS.rm call has just ended.
NoQuery ==
    [context_type |-> "", target |-> {}, extra |-> "", parent_uri |-> <<>>,
     vector |-> FALSE, limit |-> 0]
NoOp ==
    [op |-> "none", ctx |-> Ctx("", ROOT, "", ""), uri |-> <<>>, new_uri |-> <<>>,
     recursive |-> FALSE, returned |-> FALSE, denied |-> FALSE, status |-> "none",
     missing |-> FALSE, delete_failed |-> FALSE, update_failed |-> FALSE,
     removed |-> 0, below |-> 0, touched |-> FALSE, before |-> {}, result |-> {},
     query |-> NoQuery, uris |-> {}]

(***************************************************************************)
(* QueueManager.wait_complete, with check_status and is_all_complete.      *)
(***************************************************************************)
\* timeout: Optional[float] = None
NoTimeout == -1
Timeouts == {NoTimeout} \cup 0..MaxTimeout
\* queue_name: Optional[str] = None
AllQueues == "None"
Selections == QueueNames \cup {AllQueues}

NoWaiter ==
    [pc |-> "none", sel |-> AllQueues, timeout |-> NoTimeout, start |-> 0, polled |-> 0,
     complete |-> FALSE]

\* check_status(queue_name): the one queue if it exists, no queue if it does not,
\* every queue when no name is given.
CheckStatus(sel) == IF sel = AllQueues THEN queues ELSE {sel} \cap queues
\* is_all_complete: all(s.is_complete for s in statuses.values())
IsAllComplete(sel) == \A q \in CheckStatus(sel) : Drained(q)
\* "if timeout and ...": None and 0 are falsy.
Truthy(timeout) == timeout # NoTimeout /\ timeout # 0
\* if timeout and (time.time() - start) > timeout
TimedOut(timeout, start, t) == Truthy(timeout) /\ t - start > timeout

\* wait_complete(queue_name, timeout): start = time.time()
WaitStart(sel, timeout) ==
    /\ waiter.pc = "none"
    /\ waiter' = [NoWaiter EXCEPT !.pc = "polling", !.sel = sel, !.timeout = timeout,
                                  !.start = now, !.polled = now]
    /\ UNCHANGED <<qvars, failed, ivars, index0, svars, now, blobs, last>>

\* One pass of the loop: return the statuses, raise TimeoutError, or go to sleep.
WaitPoll ==
    /\ waiter.pc = "polling"
    /\ LET done == IsAllComplete(waiter.sel)
       IN waiter' = [waiter EXCEPT
                       !.polled = now,
                       !.complete = done,
                       !.pc = IF done THEN "returned"
                              ELSE IF TimedOut(waiter.timeout, waiter.start, now)
                                   THEN "timeout" ELSE "sleeping"]
    /\ UNCHANGED <<qvars, failed, ivars, index0, svars, now, blobs, last>>

\* await asyncio.sleep(poll_interval) is over.
WaitWake ==
    /\ waiter.pc = "sleeping"
    /\ waiter' = [waiter EXCEPT !.pc = "polling"]
    /\ UNCHANGED <<qvars, failed, ivars, index0, svars, now, blobs, last>>

\* Time passes.
Tick ==
    /\ now < MaxTime
    /\ now' = now + 1
    /\ UNCHANGED <<qvars, failed, ivars, index0, svars, waiter, blobs, last>>

(***************************************************************************)
(* The queue manager with its workers and handlers.                        *)
(***************************************************************************)
QInit ==
    /\ started = FALSE
    /\ phase = "live"
    /\ queues = {}
    /\ handler = [q \in QueueNames |-> "none"]
    /\ fifo = [q \in QueueNames |-> <<>>]
    /\ in_progress = [q \in QueueNames |-> 0]
    /\ processed = [q \in QueueNames |-> 0]
    /\ error_count = [q \in QueueNames |-> 0]
    /\ thread = [q \in QueueNames |-> NoThread]
    /\ task = [m \in MsgIds |-> "none"]
    /\ msgs = <<>>
    /\ starts = [m \in MsgIds |-> 0]
    /\ reports = [m \in MsgIds |-> 0]
    /\ invocations = [m \in MsgIds |-> 0]

Init ==
    /\ QInit
    /\ failed = {}
    /\ index = {}
    /\ uuid_ctr = 0
    /\ is_closing = FALSE
    /\ index0 = {}
    /\ NoRun
    /\ now = 0
    /\ waiter = NoWaiter
    /\ blobs = {}
    /\ last = NoOp

Manager ==
    \/ Start
    \/ \E q \in QueueNames, a \in BOOLEAN :
          \E h \in (IF q = EMBEDDING THEN HandlerKinds ELSE {"none", "generic"}) :
             GetQueue(q, h, a)
    \/ \E u \in MsgUris : Enqueue(EMBEDDING, u, "any", "any")
    \/ Enqueue(SEMANTIC, <<>>, "any", "any")
    \/ StopBegin
    \/ StopReturn

Workers ==
    \E q \in QueueNames :
       \/ SerialExit(q)
       \/ SerialDequeue(q)
       \/ \E ok \in BOOLEAN : SerialHandled(q, ok)
       \/ SerialRaised(q)
       \/ \E b \in BOOLEAN : SerialIdle(q, b)
       \/ WorkerStopSeen(q)
       \/ WorkerPrune(q)
       \/ \E b \in BOOLEAN : WorkerBreak(q, b)
       \/ WorkerDequeueRaw(q)
       \/ WorkerDispatch(q)
       \/ WorkerDrained(q)

Handlers ==
    \E m \in MsgIds :
       \/ GenericStart(m)
       \/ \E ok \in BOOLEAN : GenericReport(m, ok)
       \/ ProcessOneExcept(m)
       \/ \E k \in PayloadKinds, e \in BOOLEAN : EmbeddingStart(m, k, e)
       \/ \E c \in ContextTypes, res \in EmbedResults, f \in BOOLEAN :
             EmbeddingFinish(m, c, res, f)

Next == Manager \/ Workers \/ Handlers \/ CloseStore

Spec == Init /\ [][Next]_vars

(***************************************************************************)
(* Properties of the queue manager.                                        *)
(***************************************************************************)
Enqueued(q) == Cardinality({m \in 1..Len(msgs) : msgs[m].queue = q})
FailedOn(q) == Cardinality({m \in failed : msgs[m].queue = q})
\* Handler invocations that have started and not finished.
Inflight(q) ==
    Cardinality(InFlight(q)) + (IF Running(q, "handling") THEN 1 ELSE 0)
Dispatched(m) == m \in 1..Len(msgs) /\ starts[m] > 0

\* A message the concurrent worker has taken with dequeue_raw and whose handler has not
\* reported yet.
TakenUnreported(m) ==
    /\ ~IsSerial(QueueOf(m))
    /\ reports[m] = 0
    /\ \/ thread[QueueOf(m)].holding = m
       \/ Dispatched(m)

\* C32: in the concurrent worker, from the moment dequeue_raw has removed a message
\* from the queue until its handler has reported, no observer (get_status,
\* is_all_complete, wait_complete, on any thread) finds size = 0 and in_progress = 0.
C32_NoRaceWindow ==
    \A m \in 1..Len(msgs) : TakenUnreported(m) => ~Drained(QueueOf(m))


\* C1: for every named queue, in every reachable state, in_progress >= 0 and
\* size + in_progress >= 0, and when the queue is drained (size = 0 and
\* in_progress = 0) processed_total + error_count is the number of messages enqueued.
C1_DrainedAccounting ==
    \A q \in QueueNames :
       /\ in_progress[q] >= 0
       /\ Size(q) + in_progress[q] >= 0
       /\ Drained(q) => processed[q] + error_count[q] = Enqueued(q)

\* C2: every message is handed to its queue's handler at most once, whatever the
\* interleaving of the workers with enqueue, get_queue, start and stop.
C2_AtMostOnce ==
    \A m \in MsgIds : starts[m] <= 1 /\ invocations[m] <= 1

\* C2: the manager was stopped after every message of a full run was handled once.
C2_Witness ==
    /\ phase = "stopped"
    /\ Len(msgs) = MaxMsgs
    /\ \A m \in MsgIds : invocations[m] = 1
    /\ \E m \in MsgIds : msgs[m].queue = SEMANTIC

\* C3: at most max_concurrent_embedding handler invocations of the Embedding queue
\* are in flight, and at most one of every other queue.
C3_BoundedConcurrency ==
    /\ Inflight(EMBEDDING) <= MaxConcurrentEmbedding
    /\ \A q \in QueueNames \ {EMBEDDING} : Inflight(q) <= 1

\* C3: the cap binds: it is reached while a message waits and the worker looks for more.
C3_Witness ==
    /\ Inflight(EMBEDDING) = MaxConcurrentEmbedding
    /\ Size(EMBEDDING) > 0
    /\ Running(EMBEDDING, "inner")

\* C4: every message the concurrent worker dispatched to TextEmbeddingHandler.on_dequeue
\* has, once its task is done, exactly one report for its one _on_dequeue_start.
C4_ExactlyOneReport ==
    \A m \in MsgIds :
       (task[m] = "done" /\ handler[QueueOf(m)] = "text_embedding")
          => (starts[m] = 1 /\ reports[m] = 1)

\* C5: a handler that raises or reports an error leaves the worker running, and the
\* message is counted once in error_count and is never dispatched or enqueued again.
C5_FailureCountedOnce ==
    /\ \A q \in QueueNames :
          /\ error_count[q] = FailedOn(q)
          /\ (thread[q].registered /\ ~thread[q].stop) => thread[q].alive
    /\ \A m \in failed :
          /\ invocations[m] = 1
          /\ \A i \in 1..Len(fifo[QueueOf(m)]) : fifo[QueueOf(m)][i] # m

\* C7: when stop() has returned, every message the concurrent worker dispatched has a
\* completed task that reported, and none is left in progress.
C7_StopDrains ==
    phase = "stopped" =>
       \A q \in QueueNames :
          MaxConcurrentFor(q) > 1 =>
             /\ in_progress[q] = 0
             /\ \A m \in MsgIds :
                   (Dispatched(m) /\ QueueOf(m) = q) => (task[m] = "done" /\ reports[m] = 1)


(***************************************************************************)
(* A caller waiting on the serial Semantic queue.                          *)
(***************************************************************************)
WaitNext ==
    \/ \E h \in {"none", "generic"} : GetQueue(SEMANTIC, h, TRUE)
    \/ Enqueue(SEMANTIC, <<>>, "any", "any")
    \/ SerialDequeue(SEMANTIC)
    \/ \E ok \in BOOLEAN : SerialHandled(SEMANTIC, ok)
    \/ SerialIdle(SEMANTIC, FALSE)
    \/ \E sel \in Selections, t \in Timeouts : WaitStart(sel, t)
    \/ WaitPoll
    \/ WaitWake
    \/ Tick

SpecWait == Init /\ [][WaitNext]_vars

\* C8: a wait_complete call given a timeout T has returned only after it saw every
\* selected queue complete, has raised TimeoutError only when more than T had elapsed
\* without that, and does not go on waiting once it has found more than T elapsed.
C8_WaitEnds ==
    /\ waiter.pc = "returned" => waiter.complete
    /\ waiter.pc = "timeout" =>
          (~waiter.complete /\ waiter.polled - waiter.start > waiter.timeout)
    /\ (waiter.pc = "sleeping" /\ waiter.timeout # NoTimeout) =>
          waiter.polled - waiter.start <= waiter.timeout

(***************************************************************************)
(* The Embedding queue draining distinct messages, no failure, no stop,    *)
(* under fair scheduling of the worker thread and of its tasks.            *)
(***************************************************************************)
\* The record an earlier ingestion of uri left in the collection.
Indexed(uri) ==
    [HandlerRecord(ContextData(uri, "resource")) EXCEPT !.vector = "vec"]

DrainInit ==
    /\ QInit
    /\ failed = {}
    /\ index0 \in {{}, {Indexed(<<"resources", "a">>)}}
    /\ NoRun
    /\ index = index0
    /\ uuid_ctr = 0
    /\ is_closing = FALSE
    /\ now = 0
    /\ waiter = NoWaiter
    /\ blobs = {}
    /\ last = NoOp

EnqueuedUris == {msgs[m].uri : m \in 1..Len(msgs)}

DrainWorker ==
    \/ WorkerPrune(EMBEDDING)
    \/ WorkerBreak(EMBEDDING, FALSE)
    \/ WorkerDequeueRaw(EMBEDDING)
    \/ WorkerDispatch(EMBEDDING)

DrainHandler(m) ==
    \/ \E k \in PayloadKinds : EmbeddingStart(m, k, TRUE)
    \/ \E c \in ContextTypes : EmbeddingFinish(m, c, "ok", FALSE)

DrainNext ==
    \/ GetQueue(EMBEDDING, "text_embedding", TRUE)
    \/ \E u \in DrainUris \ EnqueuedUris, k \in {"text", "nonstr"}, c \in ContextTypes :
          Enqueue(EMBEDDING, u, k, c)
    \/ DrainWorker
    \/ \E m \in MsgIds : DrainHandler(m)

\* The worker thread keeps being scheduled, and so does every task on its event loop.
DrainFair ==
    /\ WF_vars(DrainWorker)
    /\ \A m \in MsgIds : WF_vars(DrainHandler(m))

SpecDrain == DrainInit /\ [][DrainNext]_vars /\ DrainFair

\* The queue is empty, nothing is in progress, every message was processed, none failed.
DrainedOK ==
    /\ Drained(EMBEDDING)
    /\ processed[EMBEDDING] = Len(msgs)
    /\ error_count[EMBEDDING] = 0

HasRecord(idx, uri) == \E r \in idx : r.uri = uri
\* A string message whose context has an allowed type and no record yet.
AddsRecord(m) ==
    /\ msgs[m].kind = "text"
    /\ msgs[m].ctype \in ALLOWED_CONTEXT_TYPES
    /\ ~HasRecord(index0, msgs[m].uri)
NewRecords == Cardinality({m \in 1..Len(msgs) : AddsRecord(m)})

IndexUris ==
    {<<"resources", "d">>, <<"resources", "d", "f">>, <<"resources", "L">>,
     <<"user", "u1", "m">>}
Accounts == {"a1", "a2"}
\* The contexts ingested: those of account a1, and one of account a2.
Ingested == {<<"a1", u>> : u \in IndexUris} \cup {<<"a2", <<"resources", "d">>>>}
\* The context whose record is also upserted without an id.
Direct == {<<"a1", <<"resources", "d">>>>}
\* The renames: onto a URI that may or may not be indexed already.
Renames ==
    {<<<<"resources", "d", "f">>, <<"resources", "d">>>>,
     <<<<"resources", "d">>, <<"resources", "d", "f">>>>}
\* The owner_space a record at uri may carry.
OwnerSpaces(uri) == IF uri[1] = "user" THEN {"u1", ""} ELSE {""}
BlobPaths == {<<"local", "a1", "resources", "d", "f">>}

IndexInit ==
    /\ QInit
    /\ failed = {}
    /\ index = {}
    /\ uuid_ctr = 0
    /\ is_closing = FALSE
    /\ index0 = {}
    /\ NoRun
    /\ now = 0
    /\ waiter = NoWaiter
    /\ blobs \in SUBSET BlobPaths
    /\ last = NoOp

Embedded(rec) == [rec EXCEPT !.vector = "vec"]
Room(idx) == Cardinality(idx) < MaxRecords

\* await VikingVectorIndexBackend.upsert(data) for a record that has no id.
BackendUpsert(account_id, uri, owner_space, ctype) ==
    /\ Room(index) /\ uuid_ctr < MaxUuids
    /\ LET rec == Embedded(ContextRecord(account_id, uri, owner_space, ctype))
       IN /\ index' = upsert(index, rec, uuid_ctr)
          /\ uuid_ctr' = UpsertCtr(rec, uuid_ctr)
    /\ last' = NoOp
    /\ UNCHANGED <<qvars, failed, is_closing, index0, svars, now, waiter, blobs>>

\* The embedding handler's write of a context's record.
HandlerUpsert(account_id, uri, owner_space, ctype) ==
    /\ Room(index)
    /\ LET rec == HandlerRecord(Embedded(ContextRecord(account_id, uri, owner_space, ctype)))
       IN /\ index' = upsert(index, rec, uuid_ctr)
          /\ uuid_ctr' = UpsertCtr(rec, uuid_ctr)
    /\ last' = NoOp
    /\ UNCHANGED <<qvars, failed, is_closing, index0, svars, now, waiter, blobs>>

\* update_uri_mapping(ctx, uri, new_uri, new_parent_uri): False when no record is found,
\* else the first record found is upserted with the new URIs.
UpdateUriMapping(ctx, uri, new_uri) ==
    /\ uri # new_uri
    /\ index' \in update_uri_mapping(index, ctx, uri, new_uri, Parent(new_uri), uuid_ctr)
    /\ last' = NoOp
    /\ UNCHANGED <<qvars, failed, uuid_ctr, is_closing, index0, svars, now, waiter, blobs>>

\* delete_uris(ctx, [uri])
DeleteUris(ctx, uri) ==
    /\ index' = delete_uris(index, ctx, {uri})
    /\ last' = NoOp
    /\ UNCHANGED <<qvars, failed, uuid_ctr, is_closing, index0, svars, now, waiter, blobs>>

\* Nothing is stored at path or below it.
Missing(files, path) == \A f \in files : ~IsPrefix(path, f)

\* agfs.rm(path, recursive): the file or directory at path goes, with what is below it.
agfs_rm(files, path) == {f \in files : ~IsPrefix(path, f)}

\* VikingFS.rm(uri, recursive, ctx).  blob_ok: agfs.rm did not raise (it does on a
\* directory that is not empty when not recursive, and it may on a path that does not
\* exist); delete_failed: the vector store raised in delete_uris, which
\* _delete_from_vector_store logs and swallows.
Rm(ctx, uri, recursive, blob_ok, delete_failed) ==
    LET path == uri_to_path(uri, ctx)
        target_uri == path_to_uri(path, ctx)
        uris_to_delete == collect_uris(blobs, path, recursive, ctx) \cup {target_uri}
        allowed == is_accessible(uri, ctx)
        returns == allowed /\ blob_ok
        deletes == returns /\ ~delete_failed
        after == IF deletes THEN delete_uris(index, ctx, uris_to_delete) ELSE index
        call == [NoOp EXCEPT !.op = "rm", !.ctx = ctx, !.uri = uri,
                             !.recursive = recursive, !.denied = ~allowed,
                             !.touched = allowed,
                             !.missing = allowed /\ Missing(blobs, path)]
    IN /\ blob_ok => (recursive \/ \A f \in blobs : ~StartsWithSlash(f, path))
       /\ ~allowed => blob_ok
       /\ delete_failed => returns
       /\ blobs' = IF returns THEN agfs_rm(blobs, path) ELSE blobs
       /\ index' = after
       /\ last' = IF ~returns THEN call
                  ELSE [call EXCEPT !.returned = TRUE, !.delete_failed = delete_failed,
                                    !.removed = Cardinality(index \ after),
                                    !.below = Cardinality({r \in index \ after :
                                                            StartsWithSlash(r.uri, uri)})]
       /\ UNCHANGED <<qvars, failed, uuid_ctr, is_closing, index0, svars, now, waiter>>

IndexNext ==
    \/ \E k \in Direct, c \in ContextTypes :
          \E o \in OwnerSpaces(k[2]) : BackendUpsert(k[1], k[2], o, c)
    \/ \E k \in Ingested, c \in ContextTypes :
          \E o \in OwnerSpaces(k[2]) : HandlerUpsert(k[1], k[2], o, c)
    \/ \E ctx \in Contexts, mv \in Renames : UpdateUriMapping(ctx, mv[1], mv[2])
    \/ \E ctx \in Contexts, u \in IndexUris : DeleteUris(ctx, u)
    \/ \E ctx \in Contexts, u \in IndexUris, rec \in BOOLEAN, ok \in BOOLEAN, df \in BOOLEAN :
          Rm(ctx, u, rec, ok, df)

SpecIndex == IndexInit /\ [][IndexNext]_vars

SameKey(r1, r2) == r1.account_id = r2.account_id /\ r1.uri = r2.uri

\* C9: the index holds at most one record per (account_id, uri), whatever upserts,
\* handler upserts, update_uri_mapping and delete_uris calls were made.
C9_OneRecordPerUri ==
    \A r1 \in index, r2 \in index : SameKey(r1, r2) => r1 = r2

\* The records of the caller's account at uri or below it.
Remaining(idx, ctx, uri) ==
    {r \in idx : r.account_id = ctx.account_id /\ IsPrefix(uri, r.uri)}
RmReturned == last.op = "rm" /\ last.recursive /\ last.returned
HasLongComponent(uri) == \E i \in 1..Len(uri) : uri[i] \in LongComponents

C11_RmIdempotent ==
    (/\ last.op = "rm" /\ ~last.denied /\ last.missing
     /\ ~last.delete_failed /\ ~HasLongComponent(last.uri)
     /\ ~OwnerScoped(last.ctx, last.uri))
       => (last.returned /\ Remaining(index, last.ctx, last.uri) = {})

(***************************************************************************)
(* VikingFS.mv: one call on a blob store and an index drawn by Init.       *)
(***************************************************************************)
FsD == <<"resources", "d">>
FsE == <<"resources", "e">>
FsN == <<"resources", "n">>
FsM == <<"user", "u1", "m">>
\* (account, uri, owner_space) of the records the index may hold before the call: a
\* directory, a directory and a file below it, the destination, a long name, a user
\* memory that is shared, and a record of another account.
FsKeys ==
    {<<"a1", FsD, "">>, <<"a1", FsD \o <<"s">>, "">>, <<"a1", FsD \o <<"s", "f">>, "">>,
     <<"a1", FsE, "">>, <<"a1", <<"resources", "L">>, "">>, <<"a1", FsM, "">>,
     <<"a2", FsD, "">>}
FsRecords ==
    {HandlerRecord(Embedded(ContextRecord(k[1], k[2], k[3], "resource"))) : k \in FsKeys}
FsBlobPaths ==
    {<<"local", "a1", "resources", "d", "s", "f">>, <<"local", "a1", "resources", "L_h">>,
     <<"local", "a1", "user", "u1", "m">>, <<"local", "a2", "resources", "d">>}
\* (old_uri, new_uri) of the calls.
FsMoves ==
    {<<FsD, FsE>>, <<FsD, FsN>>, <<<<"resources", "L">>, FsN>>,
     <<FsM, <<"user", "u1", "n">>>>, <<FsD, <<"user", "u2", "x">>>>}
FsStatus == {"ok", "404", "error"}

FsInit ==
    /\ QInit
    /\ failed = {}
    /\ index \in SUBSET FsRecords
    /\ uuid_ctr = 0
    /\ is_closing = FALSE
    /\ index0 = {}
    /\ NoRun
    /\ now = 0
    /\ waiter = NoWaiter
    /\ blobs \in SUBSET FsBlobPaths
    /\ last = NoOp

\* uri.replace(old_base_uri, new_base_uri, 1) on a URI that pairs viking:// with
\* components: the base can only occur at the start.
replace(uri, old_base, new_base) ==
    IF IsPrefix(old_base, uri)
    THEN new_base \o SubSeq(uri, Len(old_base) + 1, Len(uri))
    ELSE uri

\* agfs.mv(old_path, new_path): what is at old_path or below it is at new_path.
agfs_mv(files, old_path, new_path) == {replace(f, old_path, new_path) : f \in files}

\* mv's handler of AGFSHTTPError: the records are deleted when status_code == 404.
CleansAlways(status) == TRUE
CleansNever(status) == FALSE
CleansOrphans(status) == status = "404"

\* One round of the loop of _update_vector_store_uris, from each index of idxs: no
\* record, or an exception (uri in fails), leaves the index as it is.
UpdateOne(idxs, ctx, uri, old_base, new_base, fails) ==
    UNION {IF uri \in fails THEN {idx}
           ELSE LET records == get_context_by_uri(idx, ctx.account_id, uri)
                IN IF records = {} THEN {idx}
                   ELSE UNION {update_uri_mapping(idx, ctx, uri,
                                                  replace(uri, old_base, new_base),
                                                  replace(r.parent_uri, old_base, new_base), 0) :
                               r \in records} :
           idx \in idxs}

\* _update_vector_store_uris(uris, old_base, new_base): the indexes it can leave.  The
\* rounds commute, a round touching only the records at its own uri.
RECURSIVE update_vector_store_uris(_, _, _, _, _, _)
update_vector_store_uris(idxs, ctx, uris, old_base, new_base, fails) ==
    IF uris = {} THEN idxs
    ELSE LET uri == CHOOSE u \in uris : TRUE
         IN update_vector_store_uris(UpdateOne(idxs, ctx, uri, old_base, new_base, fails),
                                     ctx, uris \ {uri}, old_base, new_base, fails)

\* VikingFS.mv(old_uri, new_uri, ctx).  status: what agfs.mv did ("ok", AGFSHTTPError
\* with status_code 404, or another error); fails: the URIs whose update raised, which
\* _update_vector_store_uris logs and swallows; delete_failed: delete_uris raised, which
\* _delete_from_vector_store logs and swallows.
Mv(ctx, old_uri, new_uri, status, fails, delete_failed) ==
    LET old_path == uri_to_path(old_uri, ctx)
        new_path == uri_to_path(new_uri, ctx)
        target_uri == path_to_uri(old_path, ctx)
        uris_to_move == collect_uris(blobs, old_path, TRUE, ctx) \cup {target_uri}
        allowed == is_accessible(old_uri, ctx) /\ is_accessible(new_uri, ctx)
        moved == allowed /\ status = "ok"
        cleans == allowed /\ status # "ok" /\ CleansOrphans(status) /\ ~delete_failed
    IN /\ status = "ok" => ~Missing(blobs, old_path) /\ Missing(blobs, new_path)
       /\ ~allowed => status = "error"
       /\ fails # {} => moved
       /\ delete_failed => (allowed /\ status = "404")
       /\ blobs' = IF moved THEN agfs_mv(blobs, old_path, new_path) ELSE blobs
       /\ index' \in IF moved
                     THEN update_vector_store_uris({index}, ctx, uris_to_move,
                                                   old_uri, new_uri, fails)
                     ELSE IF cleans THEN {delete_uris(index, ctx, uris_to_move)}
                     ELSE {index}
       /\ last' = [NoOp EXCEPT !.op = "mv", !.ctx = ctx, !.uri = old_uri,
                               !.new_uri = new_uri, !.denied = ~allowed,
                               !.touched = allowed, !.returned = moved,
                               !.status = IF allowed THEN status ELSE "none",
                               !.missing = allowed /\ Missing(blobs, old_path),
                               !.update_failed = fails # {},
                               !.delete_failed = delete_failed,
                               !.before = index]
       /\ UNCHANGED <<qvars, failed, uuid_ctr, is_closing, index0, svars, now, waiter>>

\* The URIs mv(uri, ...) updates a record of, whose update may fail.
Updatable(ctx, uri) ==
    LET path == uri_to_path(uri, ctx)
    IN {u \in collect_uris(blobs, path, TRUE, ctx) \cup {path_to_uri(path, ctx)} :
           get_context_by_uri(index, ctx.account_id, u) # {}}

\* No call was made yet.
Fresh == last.op = "none"

FsNext ==
    /\ Fresh
    /\ \E ctx \in Contexts, m \in FsMoves, st \in FsStatus :
          \E fails \in (IF st = "ok" THEN SUBSET Updatable(ctx, m[1]) ELSE {{}}),
             df \in (IF st = "404" THEN BOOLEAN ELSE {FALSE}) :
             Mv(ctx, m[1], m[2], st, fails, df)

SpecFs == FsInit /\ [][FsNext]_vars

MvReturned == last.op = "mv" /\ last.returned
\* The records of the caller's account that were at the source or below it.
Moved == Remaining(last.before, last.ctx, last.uri)
At(idx, account_id, uri) == {r \in idx : r.account_id = account_id /\ r.uri = uri}

\* C12: after mv(old, new) has returned, with no update failed, no component over 255
\* bytes and no record at the destination before, every record of the caller's account
\* that was at old or below it, a directory's as well as a file's, is gone from its URI,
\* and exactly one record is at the rewritten URI, with the parent_uri rewritten alike.
C12_MvRewritesSubtree ==
    (/\ MvReturned /\ ~last.update_failed /\ ~HasLongComponent(last.uri)
     /\ Remaining(last.before, last.ctx, last.new_uri) = {})
       => \A r \in Moved :
             /\ At(index, r.account_id, r.uri) = {}
             /\ \E n \in index :
                   /\ At(index, r.account_id, replace(r.uri, last.uri, last.new_uri)) = {n}
                   /\ n.parent_uri = replace(r.parent_uri, last.uri, last.new_uri)

\* C13: after mv has returned, every record has the id, the vector and every other
\* field it had before the call, its uri and parent_uri apart.
C13_RenameKeepsFields ==
    MvReturned =>
       \A r \in last.before, n \in index :
          n.id = r.id => n = [r EXCEPT !.uri = n.uri, !.parent_uri = n.parent_uri]

\* C14: a mv that was denied, or whose blob move failed otherwise than with status 404,
\* leaves the index and the blobs exactly as they were; and the index differs from what
\* it was only when the blob move succeeded or failed with 404.
C14_FailedMoveKeepsIndex ==
    last.op = "mv" =>
       /\ (~last.returned /\ last.status # "404") => (index = last.before)
       /\ index # last.before => (last.touched /\ last.status \in {"ok", "404"})

\* C14: the blob move failed with an error other than 404 on a source that has records
\* at it and below it, and they are all still there.
C14_Witness ==
    /\ last.op = "mv" /\ last.status = "error" /\ ~last.missing
    /\ Cardinality(Moved) >= 2
    /\ index = last.before

\* C14 as stated: whenever the blob move fails the index is exactly as before.
C14_AnyFailureKeepsIndex ==
    (last.op = "mv" /\ ~last.returned) => index = last.before

MvCleaned ==
    /\ last.op = "mv" /\ last.status = "404" /\ last.missing
    /\ ~last.delete_failed /\ ~HasLongComponent(last.uri)

ReadOps ==
    {"read", "stat", "grep", "tree", "ls", "abstract", "overview", "relations",
     "read_file", "read_batch"}
WriteOps == {"write", "mkdir", "write_context", "write_file", "append_file", "link", "unlink"}
\* The operations that call _ensure_access on two URIs.
TwoUriOps == {"mv", "link", "unlink", "move_file"}
\* rm and mv are the actions Rm and Mv.
FsOps == ReadOps \cup WriteOps \cup {"move_file", "delete_temp"}

\* What becomes of the PermissionError of _ensure_access: delete_temp never calls it,
\* read_batch calls abstract or overview inside try ... except Exception: pass.
Gate(op) ==
    IF op = "delete_temp" THEN "none"
    ELSE IF op = "read_batch" THEN "swallowed"
    ELSE "raised"

\* The file an operation writes for path.
Written(op, path) ==
    IF op \in {"link", "unlink"} THEN {path \o <<".relations.json">>}
    ELSE IF op = "write_context" THEN {path \o <<".abstract.md">>}
    ELSE IF op = "mkdir" THEN {}
    ELSE {path}

\* The blob store after the operation's calls.
agfs_after(files, op, path, path2) ==
    IF op \in ReadOps THEN files
    ELSE IF op \in WriteOps THEN files \cup Written(op, path)
    ELSE IF op = "move_file" THEN (files \ {path}) \cup {path2}
    ELSE agfs_rm(files, path)

\* A public operation of VikingFS other than rm and mv, called with uri (and uri2 when
\* it takes two).  ok: no call on the blob store raised.
FsCall(op, ctx, uri, uri2, ok) ==
    LET two == op \in TwoUriOps
        allowed == is_accessible(uri, ctx) /\ (two => is_accessible(uri2, ctx))
        raised == Gate(op) = "raised" /\ ~allowed
        runs == Gate(op) = "none" \/ allowed
        path == uri_to_path(uri, ctx)
        path2 == uri_to_path(uri2, ctx)
    IN /\ two \/ uri2 = <<>>
       /\ ~runs => ok
       /\ (op = "move_file" /\ ok /\ runs) => path \in blobs
       /\ blobs' = IF runs /\ ok THEN agfs_after(blobs, op, path, path2) ELSE blobs
       /\ last' = [NoOp EXCEPT !.op = op, !.ctx = ctx, !.uri = uri, !.new_uri = uri2,
                               !.denied = raised, !.touched = runs,
                               !.returned = ~raised /\ (ok \/ Gate(op) # "raised")]
       /\ UNCHANGED <<qvars, failed, ivars, index0, svars, now, waiter>>

GateUris ==
    {<<"user", "u1", "x">>, <<"user", "u2", "x">>, <<"user", "g1", "x">>,
     <<"user", "memories", "x">>, <<"agent", "g1", "x">>, <<"agent", "g2", "x">>,
     <<"agent", "u1", "x">>, <<"agent", "skills", "x">>, <<"session", "u1", "x">>,
     <<"session", "u2", "x">>, <<"session", "memories", "x">>, <<"resources", "x">>,
     <<"_system", "x">>, <<"user", "u2">>, <<"session", "u2">>}
GateBlobPaths == {<<"local", "a1", "user", "u2", "x">>, <<"local", "a1", "user", "u1", "x">>}

GateInit ==
    /\ QInit
    /\ failed = {}
    /\ index = {}
    /\ uuid_ctr = 0
    /\ is_closing = FALSE
    /\ index0 = {}
    /\ NoRun
    /\ now = 0
    /\ waiter = NoWaiter
    /\ blobs \in SUBSET GateBlobPaths
    /\ last = NoOp

GateNext ==
    \/ /\ Fresh
       /\ \E ctx \in Contexts, u \in GateUris, op \in FsOps, ok \in BOOLEAN :
             \E u2 \in (IF op \in TwoUriOps THEN GateUris ELSE {<<>>}) :
                FsCall(op, ctx, u, u2, ok)
    \/ /\ Fresh
       /\ \E ctx \in Contexts, u \in GateUris, rec \in BOOLEAN, ok \in BOOLEAN :
             Rm(ctx, u, rec, ok, FALSE)
    \/ /\ Fresh
       /\ \E ctx \in Contexts, u \in GateUris, u2 \in GateUris, st \in FsStatus :
             u # u2 /\ Mv(ctx, u, u2, st, {}, FALSE)

SpecGate == GateInit /\ [][GateNext]_vars

\* The second segment of a URI under user/, agent/ or session/ that names a space.
NamesSpace(uri) ==
    /\ Len(uri) >= 2
    /\ \/ uri[1] = "session"
       \/ uri[1] = "user" /\ uri[2] \notin USER_STRUCTURE_DIRS
       \/ uri[1] = "agent" /\ uri[2] \notin AGENT_STRUCTURE_DIRS
\* The caller's space in the scope of uri.
OwnSpace(ctx, uri) == IF uri[1] = "agent" THEN ctx.agent_space ELSE ctx.user_space
\* A call of an operation that takes one URI and lets the PermissionError out.
GatedCall == last.op \in (FsOps \cup {"rm"}) \ TwoUriOps /\ Gate(last.op) = "raised"
InSpaceScope(uri) == Len(uri) >= 2 /\ uri[1] \in {"user", "agent", "session"}

\* C16: for a USER caller, a URI under user/S or session/S whose second segment is not
\* a structure directory (memories for user; memories, skills, instructions, workspaces
\* for agent) is admitted iff S is the caller's user space, and a URI under agent/S iff
\* S is the caller's agent space; a ROOT caller is never rejected.
C16_GateBySpace ==
    GatedCall =>
       /\ last.ctx.role = ROOT => ~last.denied
       /\ (last.ctx.role = USER /\ NamesSpace(last.uri)) =>
             (last.denied <=> last.uri[2] # OwnSpace(last.ctx, last.uri))

\* C16: a USER caller was rejected on another user's space and nothing was called.
C16_Witness ==
    /\ GatedCall /\ last.op = "read"
    /\ last.ctx.role = USER
    /\ last.uri = <<"user", "u2", "x">>
    /\ last.denied /\ ~last.touched

\* C16 as stated: under user/X or agent/X every second segment X that is neither of the
\* caller's spaces is rejected.
C16_ForeignSegmentRejected ==
    (/\ GatedCall /\ last.ctx.role = USER /\ InSpaceScope(last.uri)
     /\ last.uri[2] \notin {last.ctx.user_space, last.ctx.agent_space})
       => last.denied

\* C17: an operation called by a USER caller on a URI the gate rejects fails with the
\* permission error and calls neither the blob store nor the vector index.
C17_RejectionIsFatal ==
    (/\ last.op # "none" /\ last.ctx.role = USER
     /\ ~(is_accessible(last.uri, last.ctx) /\ is_accessible(last.new_uri, last.ctx)))
       => (last.denied /\ ~last.touched /\ ~last.returned)

(***************************************************************************)
(* Tenant-aware search: filter expressions, the scope filter, the four     *)
(* searches; one call on an index drawn by Init.                           *)
(***************************************************************************)
\* openviking.storage.expr: the filter expressions the backend builds.
NoFilter == [op |-> "none"]
Eq(field, value) == [op |-> "eq", field |-> field, value |-> value]
In(field, values) == [op |-> "in", field |-> field, values |-> values]
And(conds) == [op |-> "and", conds |-> conds]
Or(conds) == [op |-> "or", conds |-> conds]
RawDSL(dsl) == [op |-> "raw", dsl |-> dsl]

\* The extra filters a caller passes as a dict: none, or one that asks for level 2.
ExtraFilters == {"", "level2"}
RawMatches(dsl, r) == dsl = "level2" => r.level = 2

\* The records an expression selects: Eq is equality, In is membership, and on the
\* path field uri membership of the subtree of one of the values.
RECURSIVE Matches(_, _)
Matches(f, r) ==
    CASE f.op = "none" -> TRUE
      [] f.op = "eq" -> r[f.field] = f.value
      [] f.op = "in" -> IF f.field = "uri" THEN \E v \in f.values : IsPrefix(v, r.uri)
                        ELSE r[f.field] \in f.values
      [] f.op = "and" -> \A i \in 1..Len(f.conds) : Matches(f.conds[i], r)
      [] f.op = "or" -> \E i \in 1..Len(f.conds) : Matches(f.conds[i], r)
      [] f.op = "raw" -> RawMatches(f.dsl, r)

IsFilter(f) == f.op # "none"

\* _merge_filters(*filters)
merge_filters(filters) ==
    LET non_empty == SelectSeq(filters, IsFilter)
    IN IF non_empty = <<>> THEN NoFilter
       ELSE IF Len(non_empty) = 1 THEN non_empty[1]
       ELSE And(non_empty)

\* A search that is given no tenant condition.
NoTenantFilter(ctx, context_type) == NoFilter

\* _tenant_filter(ctx, context_type): context_type "" is None.
tenant_filter(ctx, context_type) ==
    IF ctx.role = ROOT THEN NoFilter
    ELSE LET owner_spaces ==
                {ctx.user_space, ctx.agent_space}
                   \cup (IF context_type = "resource" THEN {""} ELSE {})
         IN And(<<Eq("account_id", ctx.account_id), In("owner_space", owner_spaces)>>)

\* A sequence of the elements of a set of URIs.
RECURSIVE SeqOf(_)
SeqOf(S) == IF S = {} THEN <<>> ELSE LET x == CHOOSE y \in S : TRUE IN <<x>> \o SeqOf(S \ {x})

\* _build_scope_filter(ctx, context_type, target_directories, extra_filter)
build_scope_filter(ctx, context_type, target_directories, extra_filter) ==
    LET uri_conds == [i \in 1..Len(SeqOf(target_directories)) |->
                         In("uri", {SeqOf(target_directories)[i]})]
    IN merge_filters(
          <<IF context_type # "" THEN Eq("context_type", context_type) ELSE NoFilter,
            tenant_filter(ctx, context_type),
            IF uri_conds # <<>> THEN Or(uri_conds) ELSE NoFilter,
            IF extra_filter # "" THEN RawDSL(extra_filter) ELSE NoFilter>>)

\* The place of a record in the ranking of the query: the lower, the closer.
SearchOrder ==
    <<<<"a2", <<"resources", "d">>>>, <<"a2", <<"user", "u1", "memories", "m">>>>,
      <<"a1", <<"resources", "d", "f">>>>, <<"a1", <<"user", "u1", "memories">>>>,
      <<"a1", <<"resources", "d">>>>, <<"a1", <<"user", "u1", "memories", "m">>>>,
      <<"a1", <<"agent", "g1", "skills", "k">>>>>>
Rank(r) == CHOOSE i \in 1..Len(SearchOrder) : SearchOrder[i] = <<r.account_id, r.uri>>

\* The limit records of S the query ranks first.
TopK(S, limit) == {r \in S : Cardinality({q \in S : Rank(q) < Rank(r)}) < limit}

\* VikingVectorIndexBackend.search: the engine ranks the records the filter selects.
search(idx, filter, limit) == TopK({r \in idx : Matches(filter, r)}, limit)

search_in_tenant(idx, ctx, q) ==
    search(idx, build_scope_filter(ctx, q.context_type, q.target, q.extra), q.limit)

\* The filter of search_global_roots_in_tenant and of search_children_in_tenant.
global_roots_filter(ctx, q) ==
    merge_filters(<<build_scope_filter(ctx, q.context_type, q.target, q.extra),
                    In("level", {0, 1})>>)
children_filter(ctx, q) ==
    merge_filters(<<Eq("parent_uri", q.parent_uri),
                    build_scope_filter(ctx, q.context_type, q.target, q.extra)>>)

search_global_roots_in_tenant(idx, ctx, q) ==
    IF ~q.vector THEN {}
    ELSE search(idx, global_roots_filter(ctx, q), q.limit)

search_children_in_tenant(idx, ctx, q) == search(idx, children_filter(ctx, q), q.limit)

GLOBAL_SEARCH_TOPK == 3
\* max(limit * 2, 20)
PreFilterLimit(limit) == IF limit * 2 > 20 THEN limit * 2 ELSE 20

\* _get_root_uris_for_type(context_type, ctx)
get_root_uris_for_type(context_type, ctx) ==
    LET user_memories == <<"user", ctx.user_space, "memories">>
        agent_memories == <<"agent", ctx.agent_space, "memories">>
        agent_skills == <<"agent", ctx.agent_space, "skills">>
    IN IF ctx.role = ROOT THEN {}
       ELSE IF context_type = "" THEN {user_memories, agent_memories, <<"resources">>, agent_skills}
       ELSE IF context_type = "memory" THEN {user_memories, agent_memories}
       ELSE IF context_type = "resource" THEN {<<"resources">>}
       ELSE IF context_type = "skill" THEN {agent_skills}
       ELSE {}

\* _recursive_search with a threshold every score passes: the directories of queue are
\* entered, their children collected, and the children that are not leaves entered in
\* their turn.
RECURSIVE recursive_search(_, _, _, _, _, _)
recursive_search(idx, ctx, q, queue, visited, collected) ==
    IF queue \subseteq visited THEN collected
    ELSE LET current_uri == CHOOSE u \in queue \ visited : TRUE
             results == search_children_in_tenant(
                           idx, ctx, [q EXCEPT !.parent_uri = current_uri,
                                               !.limit = PreFilterLimit(q.limit)])
         IN recursive_search(idx, ctx, q,
                             queue \cup {r.uri : r \in {c \in results : c.level # 2}},
                             visited \cup {current_uri}
                                \cup {r.uri : r \in {c \in results : c.level = 2}},
                             collected \cup results)

\* HierarchicalRetriever.retrieve: the records of matched_contexts.
retrieve(idx, ctx, q) ==
    LET root_uris == IF q.target # {} THEN q.target
                     ELSE get_root_uris_for_type(q.context_type, ctx)
        global_results ==
           search_global_roots_in_tenant(idx, ctx, [q EXCEPT !.limit = GLOBAL_SEARCH_TOPK])
        starting_points == {r.uri : r \in global_results} \cup root_uris
    IN TopK(recursive_search(idx, ctx, q, starting_points, {}, {}), q.limit)

SearchKinds ==
    {"search_in_tenant", "search_global_roots_in_tenant", "search_children_in_tenant",
     "retrieve"}

\* What a search of the kind returns on idx.
Answer(kind, idx, ctx, q) ==
    CASE kind = "search_in_tenant" -> search_in_tenant(idx, ctx, q)
      [] kind = "search_global_roots_in_tenant" -> search_global_roots_in_tenant(idx, ctx, q)
      [] kind = "search_children_in_tenant" -> search_children_in_tenant(idx, ctx, q)
      [] kind = "retrieve" -> retrieve(idx, ctx, q)

\* One search by ctx.
Search(kind, ctx, q) ==
    /\ last' = [NoOp EXCEPT !.op = kind, !.ctx = ctx, !.returned = TRUE, !.query = q,
                            !.result = Answer(kind, index, ctx, q)]
    /\ UNCHANGED <<qvars, failed, ivars, index0, svars, now, waiter, blobs>>

\* (account, uri, owner_space, context_type, level) of the records the index may hold.
SearchKeys ==
    {<<"a1", <<"resources", "d">>, "", "resource", 1>>,
     <<"a1", <<"resources", "d", "f">>, "", "resource", 2>>,
     <<"a1", <<"user", "u1", "memories">>, "u1", "memory", 1>>,
     <<"a1", <<"user", "u1", "memories", "m">>, "", "memory", 2>>,
     <<"a1", <<"agent", "g1", "skills", "k">>, "u3", "skill", 2>>,
     <<"a2", <<"resources", "d">>, "", "resource", 1>>,
     <<"a2", <<"user", "u1", "memories", "m">>, "u1", "memory", 2>>}
SearchRecord(k) ==
    HandlerRecord(Embedded(ContextRecord(k[1], k[2], k[3], k[4]))) @@ [level |-> k[5]]
SearchRecords == {SearchRecord(k) : k \in SearchKeys}
MaxLimit == 3
SearchLimits == {1, MaxLimit}
SearchTargets == {{}, {<<"resources">>}, {<<"user", "u1">>, <<"resources", "d">>}}
SearchParents == {<<>>, <<"resources">>, <<"user", "u1", "memories">>}
Queries ==
    [context_type : {""} \cup ALLOWED_CONTEXT_TYPES, target : SearchTargets,
     extra : ExtraFilters, parent_uri : SearchParents, vector : BOOLEAN,
     limit : SearchLimits]

SearchInit ==
    /\ QInit
    /\ failed = {}
    /\ index \in SUBSET SearchRecords
    /\ uuid_ctr = 0
    /\ is_closing = FALSE
    /\ index0 = {}
    /\ NoRun
    /\ now = 0
    /\ waiter = NoWaiter
    /\ blobs = {}
    /\ last = NoOp

SearchNext ==
    /\ Fresh
    /\ \E kind \in SearchKinds, ctx \in Contexts, q \in Queries :
          /\ kind # "search_children_in_tenant" => q.parent_uri = <<>>
          /\ kind = "search_children_in_tenant" => q.parent_uri # <<>>
          /\ kind \in {"search_in_tenant", "search_children_in_tenant"} => q.vector
          /\ Search(kind, ctx, q)

SpecSearch == SearchInit /\ [][SearchNext]_vars

Searched == last.op \in SearchKinds
\* The records of the caller's account.
OwnRecords(idx, ctx) == {r \in idx : r.account_id = ctx.account_id}

\* C18: a search by a non-ROOT context of account A returns records of account A only,
\* and returns what it would return were the records of the other accounts not there.
C18_TenantIsolation ==
    (Searched /\ last.ctx.role # ROOT) =>
       /\ \A r \in last.result : r.account_id = last.ctx.account_id
       /\ last.result = Answer(last.op, OwnRecords(index, last.ctx), last.ctx, last.query)

\* C18: a retrieve returned a record of the caller's account although a record of
\* another account is ranked before it and the limit is 1.
C18_Witness ==
    /\ last.op = "retrieve" /\ last.ctx.role # ROOT
    /\ last.query.limit = 1
    /\ Cardinality(last.result) = 1
    /\ \E r \in index :
          /\ r.account_id # last.ctx.account_id
          /\ \A q \in last.result : Rank(r) < Rank(q)

\* The records the caller's condition on context_type, directories and extra filter
\* selects, the tenant condition apart.
InQuery(r, q) ==
    /\ q.context_type # "" => r.context_type = q.context_type
    /\ q.target # {} => \E d \in q.target : IsPrefix(d, r.uri)
    /\ RawMatches(q.extra, r)

\* C19: search_in_tenant by a non-ROOT context returns the records of its account whose
\* owner_space is its user space, its agent space or "", whatever the context_type, and
\* by a ROOT context the records of every account and owner_space.
C19_TenantScope ==
    (last.op = "search_in_tenant" /\ last.query.limit = MaxLimit) =>
       last.result =
          TopK({r \in index :
                   /\ InQuery(r, last.query)
                   /\ last.ctx.role # ROOT =>
                         /\ r.account_id = last.ctx.account_id
                         /\ r.owner_space \in
                               {last.ctx.user_space, last.ctx.agent_space, ""}},
               MaxLimit)

(***************************************************************************)
(* delete_uris: one call on an index drawn by Init.                        *)
(***************************************************************************)
\* (account, uri, owner_space) of the records the index may hold: a directory, a file
\* in it, a sibling whose name starts with the directory's, memories of two users and
\* one stored in a user's space for another owner, and a record of another account.
DeleteKeys ==
    {<<"a1", <<"resources", "d">>, "">>, <<"a1", <<"resources", "d", "f">>, "">>,
     <<"a1", <<"resources", "d2">>, "">>, <<"a1", <<"user", "u1", "m">>, "u1">>,
     <<"a1", <<"user", "u1", "s">>, "u2">>, <<"a1", <<"user", "u2", "m">>, "u2">>,
     <<"a2", <<"resources", "d">>, "">>}
DeleteRecords ==
    {HandlerRecord(Embedded(ContextRecord(k[1], k[2], k[3], "resource"))) : k \in DeleteKeys}
\* The lists of URIs of the calls: one or two of these.
DeleteUriLists ==
    {{u1, u2} : u1, u2 \in {<<"resources", "d">>, <<"resources", "d", "f">>, <<"user">>,
                            <<"user", "u1">>, <<"user", "u2", "m">>}}

DeleteInit ==
    /\ QInit
    /\ failed = {}
    /\ index \in SUBSET DeleteRecords
    /\ uuid_ctr = 0
    /\ is_closing = FALSE
    /\ index0 = {}
    /\ NoRun
    /\ now = 0
    /\ waiter = NoWaiter
    /\ blobs = {}
    /\ last = NoOp

\* await delete_uris(ctx, uris), which returned.
DeleteCall(ctx, uris) ==
    /\ index' = delete_uris(index, ctx, uris)
    /\ last' = [NoOp EXCEPT !.op = "delete_uris", !.ctx = ctx, !.uris = uris,
                            !.returned = TRUE, !.before = index]
    /\ UNCHANGED <<qvars, failed, uuid_ctr, is_closing, index0, svars, now, waiter, blobs>>

DeleteNext ==
    /\ Fresh
    /\ \E ctx \in Contexts, uris \in DeleteUriLists : DeleteCall(ctx, uris)

SpecDelete == DeleteInit /\ [][DeleteNext]_vars

\* A record the claim has delete_uris(ctx, [..., U, ...]) delete.
ToDelete(ctx, U, r) ==
    /\ r.account_id = ctx.account_id
    /\ r.uri = U \/ StartsWithSlash(r.uri, U)
    /\ (ctx.role = USER /\ U[1] \in {"user", "agent"}) => r.owner_space = ExpectedSpace(ctx, U)

\* C20: delete_uris(ctx, uris) deletes the records of ctx.account_id at a listed U or
\* below it, those of the caller's owner_space only when a USER context lists a URI of
\* the user or agent scope, and leaves every other record as it was.
C20_DeletesExactly ==
    last.op = "delete_uris" =>
       index = {r \in last.before : \A U \in last.uris : ~ToDelete(last.ctx, U, r)}

(***************************************************************************)
(* HierarchicalRetriever.retrieve, one expansion per step: retrieve seeds  *)
(* the heap, _recursive_search pops and expands, the candidates are        *)
(* blended with hotness and sorted.  Scores are in 256ths.                 *)
(***************************************************************************)
MAX_CONVERGENCE_ROUNDS == 3

\* The order of Python strings on the URIs of the model, component by component.
Alphabet ==
    <<"a", "agent", "b", "c", "d", "e1", "e2", "e3", "e4", "e5", "g0", "g1", "g2",
      "memories", "r0", "resources", "skills", "u1", "u2", "user", "x", "y">>
Pos(c) == CHOOSE i \in 1..Len(Alphabet) : Alphabet[i] = c
RECURSIVE UriBefore(_, _)
UriBefore(u, v) ==
    IF v = <<>> THEN FALSE
    ELSE IF u = <<>> THEN TRUE
    ELSE IF Head(u) = Head(v) THEN UriBefore(Tail(u), Tail(v))
    ELSE Pos(Head(u)) < Pos(Head(v))

\* heapq on (-score, uri): the entry heappop returns, and the heap without it.
HeapTop(heap) ==
    CHOOSE i \in DOMAIN heap :
       \A j \in DOMAIN heap \ {i} :
          \/ heap[i].score > heap[j].score
          \/ /\ heap[i].score = heap[j].score
             /\ \/ UriBefore(heap[i].uri, heap[j].uri)
                \/ heap[i].uri = heap[j].uri /\ i < j
Without(seq, i) == SubSeq(seq, 1, i - 1) \o SubSeq(seq, i + 1, Len(seq))
Take(seq, n) == SubSeq(seq, 1, IF n < Len(seq) THEN n ELSE Len(seq))
Range(seq) == {seq[i] : i \in DOMAIN seq}

\* The engine's answers: the records of S by non-increasing score, records of one
\* score in any order.
RECURSIVE Ranked(_, _)
Ranked(S, f) ==
    IF S = {} THEN {<<>>}
    ELSE UNION {{<<m>> \o t : t \in Ranked(S \ {m}, f)} :
                   m \in {r \in S : \A o \in S : f[r] >= f[o]}}
scored_search(idx, filter, limit, f) ==
    {Take(s, limit) : s \in Ranked({r \in idx : Matches(filter, r)}, f)}

\* The _score the engine gives a record for the query, under three scorings: one that
\* falls with the depth, one with ties, one that gives every directory 0.
ScoreKinds == {"deep", "flat", "zero"}
Score(kind, r) ==
    CASE kind = "zero" -> IF r.level = 2 THEN 128 ELSE 0
      [] kind = "flat" ->
            CASE r.uri = <<"resources", "a", "b", "c">> -> 96
              [] r.uri = <<"resources", "a", "b", "c", "d">> -> 80
              [] r.uri = <<"resources">> -> 64
              [] OTHER -> 128
      [] kind = "deep" ->
            CASE r.uri = <<"resources", "a", "x">> -> 256
              [] r.uri = <<"resources", "a">> -> 192
              [] r.uri = <<"resources", "a", "b">> -> 128
              [] r.uri = <<"resources", "a", "b", "c">> -> 112
              [] r.uri = <<"resources">> -> 48
              [] OTHER -> 64
Scores(kind, idx) == [r \in idx |-> Score(kind, r)]

\* A search that remembers no URI it has entered.
never_visited(uri, visited) == FALSE
\* current_uri in visited
is_visited(uri, visited) == uri \in visited

\* passes_threshold with the default threshold 0 and score_gte False.
passes_threshold(score) == score > 0

\* A propagation that blends every parent score in.
propagate_always(score, current_score) == (score + current_score) \div 2
\* final_score = alpha * score + (1 - alpha) * current_score if current_score else score,
\* alpha = SCORE_PROPAGATION_ALPHA = 0.5
propagate(score, current_score) ==
    IF current_score # 0 THEN (score + current_score) \div 2 ELSE score

\* sorted(collected, key=_final_score, reverse=True): Python's sort is stable.
Ahead(seq, i) ==
    {j \in DOMAIN seq : \/ seq[j].final_score > seq[i].final_score
                        \/ seq[j].final_score = seq[i].final_score /\ j < i}
SortedByScore(seq) ==
    [k \in DOMAIN seq |-> seq[CHOOSE i \in DOMAIN seq : Cardinality(Ahead(seq, i)) = k - 1]]
TopUris(collected, limit) == {c.uri : c \in Range(Take(SortedByScore(collected), limit))}

\* The for loop over the results of one expansion: st is collected, visited, dir_queue.
RECURSIVE absorb(_, _, _, _)
absorb(results, f, current_score, st) ==
    IF results = <<>> THEN st
    ELSE LET r == Head(results)
             final_score == propagate(f[r], current_score)
             seen == \E i \in DOMAIN st.collected : st.collected[i].uri = r.uri
             collected == IF seen THEN st.collected
                          ELSE Append(st.collected,
                                      [uri |-> r.uri, level |-> r.level,
                                       active_count |-> r.active_count,
                                       final_score |-> final_score])
         IN absorb(Tail(results), f, current_score,
                   IF ~passes_threshold(final_score) THEN st
                   ELSE IF is_visited(r.uri, st.visited) THEN [st EXCEPT !.collected = collected]
                   ELSE IF r.level = 2
                        THEN [st EXCEPT !.collected = collected,
                                        !.visited = @ \cup {r.uri}]
                        ELSE [st EXCEPT !.collected = collected,
                                        !.dir_queue =
                                           Append(@, [score |-> final_score, uri |-> r.uri])])

\* hotness_score(active_count, updated_at): monotone, clamped in [0, 1].
hotness_score(active_count) == IF active_count * 64 > 256 THEN 256 ELSE active_count * 64
\* Five times (1 - alpha) * semantic_score + alpha * h_score, alpha = HOTNESS_ALPHA = 0.2.
hotness_blend(semantic_score, h_score) == 4 * semantic_score + h_score

\* _convert_to_matched_contexts: the blended score of each candidate, then the sort.
convert_to_matched_contexts(candidates) ==
    SortedByScore([i \in DOMAIN candidates |->
                      [uri |-> candidates[i].uri, level |-> candidates[i].level,
                       active_count |-> candidates[i].active_count,
                       final_score |-> hotness_blend(candidates[i].final_score,
                                                     hotness_score(candidates[i].active_count))]])

\* The empty string of a target_directories list.
EmptyString == <<>>
\* A retrieve that keeps the empty strings of target_directories.
keep_all(target_directories) == target_directories
\* target_dirs = [d for d in (query.target_directories or []) if d]
non_empty(target_directories) == target_directories \ {EmptyString}

NoRetrieval(kind) ==
    [phase |-> "idle", scoring |-> kind, ctx |-> Ctx("", ROOT, "", ""), q |-> NoQuery,
     target_dirs |-> {}, root_uris |-> {}, dir_queue |-> <<>>, visited |-> {},
     collected |-> <<>>, prev_topk_uris |-> {}, convergence_rounds |-> 0,
     converged |-> FALSE, expanded |-> <<>>, passed |-> {}, still |-> 0,
     skipped |-> 0, starting |-> {}, global_uris |-> {}, blends |-> {},
     matched |-> <<>>, searched_directories |-> {}]

\* retrieve up to the call of _recursive_search.  exists is collection_exists_bound().
Retrieve(ctx, q, exists) ==
    LET target_dirs == non_empty(q.target)
        root_uris == IF target_dirs # {} THEN target_dirs
                     ELSE get_root_uris_for_type(q.context_type, ctx)
        tq == [q EXCEPT !.target = target_dirs]
        f == Scores(retr.scoring, index)
    IN /\ retr.phase = "idle"
       /\ IF ~exists
          THEN retr' = [retr EXCEPT !.phase = "done", !.ctx = ctx, !.q = q,
                                    !.target_dirs = target_dirs]
          ELSE \E global_results \in
                     IF q.vector
                     THEN scored_search(index, global_roots_filter(ctx, tq),
                                        GLOBAL_SEARCH_TOPK, f)
                     ELSE {<<>>} :
                  LET seen == {r.uri : r \in Range(global_results)}
                      rest == SeqOf(root_uris \ seen)
                  IN retr' = [retr EXCEPT
                                !.phase = "searching", !.ctx = ctx, !.q = q,
                                !.target_dirs = target_dirs, !.root_uris = root_uris,
                                !.passed = {target_dirs},
                                !.starting = seen \cup root_uris,
                                !.global_uris = seen,
                                !.dir_queue =
                                   [i \in DOMAIN global_results |->
                                       [score |-> f[global_results[i]],
                                        uri |-> global_results[i].uri]]
                                   \o [i \in DOMAIN rest |-> [score |-> 0, uri |-> rest[i]]]]
       /\ UNCHANGED <<qvars, failed, ivars, index0, dag, rels, bound_ctx, now, waiter, blobs, last>>

\* One turn of the while loop of _recursive_search whose URI was visited before.
Skip ==
    LET i == HeapTop(retr.dir_queue)
    IN /\ retr.phase = "searching" /\ ~retr.converged /\ retr.dir_queue # <<>>
       /\ is_visited(retr.dir_queue[i].uri, retr.visited)
       /\ retr' = [retr EXCEPT !.dir_queue = Without(@, i), !.skipped = @ + 1]
       /\ UNCHANGED <<qvars, failed, ivars, index0, dag, rels, bound_ctx, now, waiter, blobs, last>>

\* One turn of the while loop that asks for the children of the URI on top of the heap.
Expand ==
    LET i == HeapTop(retr.dir_queue)
        current_uri == retr.dir_queue[i].uri
        current_score == retr.dir_queue[i].score
        f == Scores(retr.scoring, index)
        cq == [retr.q EXCEPT !.target = retr.target_dirs, !.parent_uri = current_uri]
        before == TopUris(retr.collected, retr.q.limit)
    IN /\ retr.phase = "searching" /\ ~retr.converged /\ retr.dir_queue # <<>>
       /\ ~is_visited(current_uri, retr.visited)
       /\ \E results \in scored_search(index, children_filter(retr.ctx, cq),
                                       PreFilterLimit(retr.q.limit), f) :
             LET popped == [retr EXCEPT !.dir_queue = Without(@, i),
                                        !.visited = @ \cup {current_uri},
                                        !.expanded = Append(@, current_uri),
                                        !.blends = @ \cup
                                           {[parent |-> current_uri,
                                             parent_score |-> current_score,
                                             child |-> r.uri, child_score |-> f[r],
                                             final_score |-> propagate(f[r], current_score)] :
                                               r \in Range(results)},
                                        !.passed = @ \cup {cq.target}]
                 st == absorb(results, f, current_score, popped)
                 current_topk_uris == TopUris(st.collected, retr.q.limit)
                 same == /\ current_topk_uris = retr.prev_topk_uris
                         /\ Cardinality(current_topk_uris) >= retr.q.limit
                 unchanged == /\ current_topk_uris = before
                              /\ Cardinality(current_topk_uris) >= retr.q.limit
                 counted == [st EXCEPT !.still = IF unchanged THEN @ + 1 ELSE 0]
             IN retr' =
                  IF results = <<>> THEN counted
                  ELSE IF same
                  THEN [counted EXCEPT
                          !.convergence_rounds = @ + 1,
                          !.converged = retr.convergence_rounds + 1 >= MAX_CONVERGENCE_ROUNDS]
                  ELSE [counted EXCEPT !.convergence_rounds = 0,
                                       !.prev_topk_uris = current_topk_uris]
       /\ UNCHANGED <<qvars, failed, ivars, index0, dag, rels, bound_ctx, now, waiter, blobs, last>>

\* The end of _recursive_search and the rest of retrieve.
Finish ==
    /\ retr.phase = "searching"
    /\ retr.converged \/ retr.dir_queue = <<>>
    /\ LET candidates == Take(SortedByScore(retr.collected), retr.q.limit)
           matched == convert_to_matched_contexts(candidates)
       IN retr' = [retr EXCEPT !.phase = "done",
                               !.matched = Take(matched, retr.q.limit),
                               !.searched_directories = retr.root_uris]
    /\ UNCHANGED <<qvars, failed, ivars, index0, dag, rels, bound_ctx, now, waiter, blobs, last>>

\* The records of the index the retrievals run on: a chain of directories below
\* viking://resources/a with two leaves, and a record of viking://resources whose
\* parent_uri closes a cycle.
RetrRecord(uri, parent_uri, level, active_count) ==
    [SearchRecord(<<"a1", uri, "", "resource", level>>) EXCEPT
        !.parent_uri = parent_uri, !.active_count = active_count]
RetrRecords ==
    {RetrRecord(<<"resources", "a">>, <<"resources">>, 1, 0),
     RetrRecord(<<"resources", "a", "x">>, <<"resources", "a">>, 2, 0),
     RetrRecord(<<"resources", "a", "b">>, <<"resources", "a">>, 1, 0),
     RetrRecord(<<"resources", "a", "b", "c">>, <<"resources", "a", "b">>, 1, 0),
     RetrRecord(<<"resources", "a", "b", "c", "d">>, <<"resources", "a", "b", "c">>, 1, 0),
     RetrRecord(<<"resources", "a", "b", "c", "d", "y">>,
                <<"resources", "a", "b", "c", "d">>, 2, 4),
     RetrRecord(<<"resources">>, <<"resources", "a", "b">>, 0, 0)}
\* Every record below viking://resources/a has the record of its directory.
RetrIndexes ==
    {S \in SUBSET RetrRecords :
        \A r \in S : Len(r.uri) > 2 => \E p \in S : p.uri = r.parent_uri}
RetrTargets ==
    {{}, {EmptyString}, {<<"resources">>}, {<<"resources", "a", "b">>, EmptyString},
     {<<"resources", "a">>, <<"resources", "a", "x">>},
     {<<"resources", "a">>, <<"resources", "e1">>, <<"resources", "e2">>,
      <<"resources", "e3">>, <<"resources", "e4">>, <<"resources", "e5">>}}
RetrQueries ==
    [context_type : {"", "resource"}, target : RetrTargets, extra : {""},
     parent_uri : {<<>>}, vector : BOOLEAN, limit : SearchLimits]
RetrContexts == {c \in Contexts : c.account_id = "a1"}

RetrInit ==
    /\ QInit
    /\ failed = {}
    /\ index \in RetrIndexes
    /\ uuid_ctr = 0
    /\ is_closing = FALSE
    /\ index0 = {}
    /\ retr \in {NoRetrieval(k) : k \in ScoreKinds}
    /\ dag = <<>>
    /\ rels = <<>>
    /\ bound_ctx = <<>>
    /\ now = 0
    /\ waiter = NoWaiter
    /\ blobs = {}
    /\ last = NoOp

RetrNext ==
    \/ /\ retr.phase = "idle"
       /\ \E ctx \in RetrContexts, q \in RetrQueries, exists \in BOOLEAN :
             Retrieve(ctx, q, exists)
    \/ Skip
    \/ Expand
    \/ Finish

SpecRetr == RetrInit /\ [][RetrNext]_vars

\* The directory URIs _recursive_search can reach from S: the URIs of S and, through
\* parent_uri, the URIs of the records of idx that are not leaves.
RECURSIVE Reachable(_, _)
Reachable(S, idx) ==
    LET more == {r.uri : r \in {c \in idx : c.level # 2 /\ c.parent_uri \in S}}
    IN IF more \subseteq S THEN S ELSE Reachable(S \cup more, idx)

NoDuplicates(seq) == \A i, j \in DOMAIN seq : seq[i] = seq[j] => i = j

\* What is left to do: the entries on the heap, and for every reachable directory not
\* yet expanded the entries its expansion may push.
LeftToDo(s, idx) ==
    Len(s.dir_queue)
       + (Cardinality(idx) + 1)
            * (Cardinality(Reachable(s.starting, idx)) - Len(s.expanded))

\* C21: _recursive_search ends (every turn of its loop lowers what is left to do, which
\* is never negative), asks for the children of each URI at most once, and makes at
\* most as many expansions as there are directory URIs reachable from the starting
\* points, also when parent_uri links form a cycle or a URI is pushed twice.
C21_ExpandsOnce ==
    /\ [](NoDuplicates(retr.expanded))
    /\ [](Len(retr.expanded) <= Cardinality(Reachable(retr.starting, index)))
    /\ [][retr.phase = "searching" =>
            \/ retr'.phase = "done"
            \/ LeftToDo(retr', index') < LeftToDo(retr, index)]_vars
C21_Witness ==
    /\ retr.phase = "done"
    /\ retr.skipped > 0
    /\ \E r \in index : r.uri = <<"resources">>
    /\ {<<"resources">>, <<"resources", "a">>, <<"resources", "a", "b">>}
          \subseteq Range(retr.expanded)

\* C22: once the top-limit URIs have limit members, the search stops after
\* MAX_CONVERGENCE_ROUNDS expansions in a row that leave them unchanged, so never more
\* than 1 + MAX_CONVERGENCE_ROUNDS such expansions follow one another, whatever they
\* return; a search stopped this way returns exactly limit URIs.
C22_ConvergenceStop ==
    /\ retr.still <= 1 + MAX_CONVERGENCE_ROUNDS
    /\ retr.phase = "done" /\ retr.converged => Len(retr.matched) = retr.q.limit

\* The blended score _convert_to_matched_contexts gives a collected record.
Blended(c) == hotness_blend(c.final_score, hotness_score(c.active_count))

\* C23: retrieve returns, by non-increasing blended score, the limit records of the
\* highest blended score among all the records the search collected: no collected
\* record is left out in favour of a returned record of a lower blended score.
C23_TopByBlendedScore ==
    retr.phase = "done" =>
       /\ \A i, j \in DOMAIN retr.matched :
             i < j => retr.matched[i].final_score >= retr.matched[j].final_score
       /\ \A c \in Range(retr.collected) :
             (\A m \in Range(retr.matched) : m.uri # c.uri)
                => /\ Len(retr.matched) = retr.q.limit
                   /\ \A m \in Range(retr.matched) : Blended(c) <= m.final_score

\* The retrieval got past the check that the collection exists.
Searching == retr.phase \in {"searching", "done"} /\ retr.passed # {}
HeapEmptied == retr.phase = "done" /\ ~retr.converged
Expanded(uri) == uri \in Range(retr.expanded)
LeafFound(uri) == \E c \in Range(retr.collected) : c.uri = uri /\ c.level = 2

\* C24: when target_directories holds a non-empty string and the collection exists,
\* retrieve takes exactly the non-empty target directories as root URIs and reports
\* them as searched_directories, passes them to the global search and to every child
\* search, and puts each of them on the heap; a search that ends with an empty heap has
\* expanded each of them, but for one it had met before as a level-2 child.  Without
\* a non-empty target directory the roots are those of context_type and the context.
C24_TargetsAreRoots ==
    Searching =>
       /\ retr.target_dirs = retr.q.target \ {EmptyString}
       /\ retr.passed = {retr.target_dirs}
       /\ retr.target_dirs # {} =>
             /\ retr.root_uris = retr.target_dirs
             /\ retr.target_dirs \subseteq retr.starting
             /\ retr.phase = "done" => retr.searched_directories = retr.target_dirs
             /\ HeapEmptied => \A t \in retr.target_dirs : Expanded(t) \/ LeafFound(t)
       /\ retr.target_dirs = {} =>
             retr.root_uris = get_root_uris_for_type(retr.q.context_type, retr.ctx)
C24_Witness ==
    /\ HeapEmptied
    /\ EmptyString \in retr.q.target
    /\ retr.target_dirs # {}
    /\ Len(retr.collected) > 1
    /\ \A t \in retr.target_dirs : Expanded(t)

\* C24 as stated: every target directory (a target that is not a level-2 record) is
\* expanded as a parent, however the search ends.
C24_EveryTargetExpanded ==
    Searching /\ retr.phase = "done" =>
       /\ retr.target_dirs # {} =>
             /\ retr.searched_directories = retr.target_dirs
             /\ retr.passed = {retr.target_dirs}
             /\ \A t \in retr.target_dirs : Expanded(t) \/ LeafFound(t)
       /\ retr.target_dirs = {} =>
             retr.root_uris = get_root_uris_for_type(retr.q.context_type, retr.ctx)

(***************************************************************************)
(* SemanticDagExecutor.run on a subtree: directories are listed, file      *)
(* summaries run under the semaphore, a directory is summarised after its  *)
(* children.                                                               *)
(***************************************************************************)
MaxConcurrentLlm == 2

DagRoot == <<"root">>
Node(path, isDir) == [path |-> path, isDir |-> isDir]
\* The subtrees the executor runs on: the nodes below the root, by path.
Trees ==
    {{Node(DagRoot, TRUE)},
     {Node(DagRoot, TRUE), Node(<<"root", "a">>, FALSE), Node(<<"root", "b">>, FALSE),
      Node(<<"root", "child">>, TRUE), Node(<<"root", "child", "c">>, FALSE)},
     {Node(DagRoot, TRUE), Node(<<"root", "child">>, TRUE),
      Node(<<"root", "child", "g">>, TRUE), Node(<<"root", "child", "g", "c">>, FALSE),
      Node(<<"root", "d">>, TRUE), Node(<<"root", "d", "a">>, FALSE)}}

\* The entries a listing returns without the files.
ls_dirs(tree, dir) ==
    {n \in tree : n.isDir /\ Len(n.path) = Len(dir) + 1 /\ IsPrefix(dir, n.path)}
\* VikingFS.ls(dir): the direct files and subdirectories of dir.
ls(tree, dir) == {n \in tree : Len(n.path) = Len(dir) + 1 /\ IsPrefix(dir, n.path)}

Paths(nodes) == {n.path : n \in nodes}
Completed(path) == dag.status[path] \in {"done", "failed"}

\* A directory that waits for nothing.
nothing_to_wait_for(tree, dir) == TRUE
\* Every subdirectory of dir has completed and every file summary of dir is done.
children_complete(tree, dir) == \A n \in ls(tree, dir) : Completed(n.path)

NoDag(tree, max_concurrent_llm) ==
    [phase |-> "idle", tree |-> tree, max_concurrent_llm |-> max_concurrent_llm,
     status |-> [p \in Paths(tree) |-> "unknown"],
     total_nodes |-> 0, pending_nodes |-> 0, in_progress_nodes |-> 0, done_nodes |-> 0,
     llm_sem |-> 0, vectorized_dirs |-> <<>>, vectorized_files |-> <<>>,
     summaries |-> {}]

DagUnchanged ==
    UNCHANGED <<qvars, failed, ivars, index0, retr, rels, bound_ctx, now, waiter, blobs, last>>

\* run(root_uri): the root is the first node.
Run ==
    /\ dag.phase = "idle"
    /\ dag' = [dag EXCEPT !.phase = "running", !.status[DagRoot] = "pending",
                          !.total_nodes = 1, !.pending_nodes = 1]
    /\ DagUnchanged

\* A pending directory is listed: its files and subdirectories become nodes.
ListDir(dir) ==
    LET found == Paths(ls(dag.tree, dir))
    IN /\ dag.phase = "running"
       /\ dag.status[dir] = "pending"
       /\ dag' = [dag EXCEPT
                    !.status = [p \in DOMAIN @ |->
                                   IF p = dir THEN "in_progress"
                                   ELSE IF p \in found THEN "pending" ELSE @[p]],
                    !.total_nodes = @ + Cardinality(found),
                    !.pending_nodes = @ - 1 + Cardinality(found),
                    !.in_progress_nodes = @ + 1]
       /\ DagUnchanged

\* A file summary takes a slot of the semaphore.
StartFile(file) ==
    /\ dag.phase = "running"
    /\ dag.status[file] = "pending"
    /\ dag.llm_sem < dag.max_concurrent_llm
    /\ dag' = [dag EXCEPT !.status[file] = "in_progress", !.llm_sem = @ + 1,
                          !.pending_nodes = @ - 1, !.in_progress_nodes = @ + 1]
    /\ DagUnchanged

\* The summary of a file returns, or the LLM call fails; a summarised file is
\* vectorized.  counted: a failed node is counted as done.
FinishFile(file, ok, counted) ==
    /\ dag.phase = "running"
    /\ dag.status[file] = "in_progress"
    /\ ok => counted
    /\ dag' = [dag EXCEPT
                 !.status[file] = IF ok THEN "done" ELSE "failed",
                 !.llm_sem = @ - 1,
                 !.in_progress_nodes = IF counted THEN @ - 1 ELSE @,
                 !.done_nodes = IF counted THEN @ + 1 ELSE @,
                 !.summaries = IF ok THEN @ \cup {file} ELSE @,
                 !.vectorized_files = IF ok THEN Append(@, file) ELSE @]
    /\ DagUnchanged

\* The overview and abstract of a listed directory whose children are complete, then
\* its vectorization; or the LLM call fails.
FinishDir(dir, ok, counted) ==
    /\ dag.phase = "running"
    /\ dag.status[dir] = "in_progress"
    /\ children_complete(dag.tree, dir)
    /\ ok => counted
    /\ dag' = [dag EXCEPT
                 !.status[dir] = IF ok THEN "done" ELSE "failed",
                 !.in_progress_nodes = IF counted THEN @ - 1 ELSE @,
                 !.done_nodes = IF counted THEN @ + 1 ELSE @,
                 !.vectorized_dirs = IF ok THEN Append(@, dir) ELSE @]
    /\ DagUnchanged

\* run returns when the root has completed.
Return ==
    /\ dag.phase = "running"
    /\ Completed(DagRoot)
    /\ dag' = [dag EXCEPT !.phase = "returned"]
    /\ DagUnchanged

DagInit ==
    /\ QInit
    /\ failed = {}
    /\ index = {}
    /\ uuid_ctr = 0
    /\ is_closing = FALSE
    /\ index0 = {}
    /\ retr = <<>>
    /\ dag \in {NoDag(t, n) : t \in Trees, n \in {1, MaxConcurrentLlm}}
    /\ rels = <<>>
    /\ bound_ctx = <<>>
    /\ now = 0
    /\ waiter = NoWaiter
    /\ blobs = {}
    /\ last = NoOp

DagNext ==
    \/ Run
    \/ \E n \in {m \in dag.tree : m.isDir} : ListDir(n.path)
    \/ \E n \in {m \in dag.tree : ~m.isDir} : StartFile(n.path)
    \/ \E n \in {m \in dag.tree : ~m.isDir}, ok, counted \in BOOLEAN :
          FinishFile(n.path, ok, counted)
    \/ \E n \in {m \in dag.tree : m.isDir}, ok, counted \in BOOLEAN :
          FinishDir(n.path, ok, counted)
    \/ Return

SpecDag == DagInit /\ [][DagNext]_vars

Dirs == {n.path : n \in {m \in dag.tree : m.isDir}}
Files == {n.path : n \in {m \in dag.tree : ~m.isDir}}
Vectorized(dir) == dir \in Range(dag.vectorized_dirs)
PlaceOf(dir) == CHOOSE i \in DOMAIN dag.vectorized_dirs : dag.vectorized_dirs[i] = dir

\* C25: the executor walks the subtree post-order under any scheduling: a directory is
\* vectorized only after every subdirectory has completed and all its own file
\* summaries are done, a vectorized subdirectory comes before its parent, and the root
\* comes last.
C25_PostOrder ==
    \A dir \in Dirs :
       Vectorized(dir) =>
          /\ \A n \in ls(dag.tree, dir) : Completed(n.path)
          /\ \A n \in ls(dag.tree, dir) :
                ~n.isDir /\ dag.status[n.path] = "done" => n.path \in dag.summaries
          /\ \A sub \in Dirs :
                IsPrefix(dir, sub) /\ sub # dir /\ Vectorized(sub)
                   => PlaceOf(sub) < PlaceOf(dir)
          /\ dir = DagRoot => PlaceOf(dir) = Len(dag.vectorized_dirs)
C25_Witness ==
    /\ dag.phase = "returned"
    /\ dag.max_concurrent_llm > 1
    /\ dag.vectorized_dirs = <<<<"root", "child">>, DagRoot>>
    /\ Len(dag.vectorized_files) = 3
    /\ dag.vectorized_files[1] = <<"root", "child", "c">>

Count(seq, x) == Cardinality({i \in DOMAIN seq : seq[i] = x})
NoneFailed == \A p \in DOMAIN dag.status : dag.status[p] # "failed"

\* C26: total_nodes = pending_nodes + in_progress_nodes + done_nodes throughout a run;
\* when run returns with no failed node, nothing is pending or in progress, done_nodes
\* = total_nodes = the directories plus the files of the subtree, and each file has
\* been vectorized exactly once.
C26_StatsAddUp ==
    /\ dag.total_nodes = dag.pending_nodes + dag.in_progress_nodes + dag.done_nodes
    /\ dag.phase = "returned" /\ NoneFailed =>
          /\ dag.pending_nodes = 0
          /\ dag.in_progress_nodes = 0
          /\ dag.done_nodes = dag.total_nodes
          /\ dag.total_nodes = Cardinality(Dirs) + Cardinality(Files)
          /\ \A f \in Files : Count(dag.vectorized_files, f) = 1
C26_Witness ==
    /\ dag.phase = "returned"
    /\ NoneFailed
    /\ dag.total_nodes = 5
    /\ dag.done_nodes = 5
    /\ Len(dag.vectorized_files) = 3

(***************************************************************************)
(* VikingVectorIndexBackend.increment_active_count: one call on an index   *)
(* drawn by Init.                                                          *)
(***************************************************************************)
\* The loop of increment_active_count over uris from position i on: the record
\* get_context_by_uri(limit=1) returns, any one of those found, is upserted with
\* active_count + 1.  The value is the set of the outcomes the call can have.
RECURSIVE increment_active_count(_, _, _, _, _)
increment_active_count(idx, ctx, uris, n, updated) ==
    IF uris = <<>> THEN {[index |-> idx, updated |-> updated]}
    ELSE LET records == get_context_by_uri(idx, ctx.account_id, Head(uris))
         IN IF records = {}
            THEN increment_active_count(idx, ctx, Tail(uris), n, updated)
            ELSE UNION {increment_active_count(
                           upsert(idx, [Read(r) EXCEPT !.active_count = @ + 1], n),
                           ctx, Tail(uris), n, updated + 1) : r \in records}

IncrementActiveCount(ctx, uris) ==
    /\ \E out \in increment_active_count(index, ctx, uris, uuid_ctr, 0) :
          /\ index' = out.index
          /\ last' = [NoOp EXCEPT !.op = "increment_active_count", !.ctx = ctx,
                                  !.returned = TRUE, !.before = index, !.uris = uris,
                                  !.result = out.updated]
    /\ UNCHANGED <<qvars, failed, uuid_ctr, is_closing, index0, svars, now, waiter, blobs>>

CountUris == {<<"resources", "d">>, <<"resources", "d", "f">>, <<"resources", "n">>}
CountRecords ==
    {HandlerRecord(Embedded(ContextRecord("a1", <<"resources", "d">>, "", "resource"))),
     [HandlerRecord(Embedded(ContextRecord("a1", <<"resources", "d", "f">>, "", "resource")))
         EXCEPT !.active_count = 2],
     HandlerRecord(Embedded(ContextRecord("a2", <<"resources", "d">>, "", "resource"))),
     HandlerRecord(ContextRecord("a2", <<"resources", "d", "f">>, "", "resource"))}
\* The lists of at most two URIs, a URI listed twice among them.
CountLists == {<<>>} \cup {<<u>> : u \in CountUris} \cup {<<u, v>> : u, v \in CountUris}

CountInit ==
    /\ QInit
    /\ failed = {}
    /\ index \in SUBSET CountRecords
    /\ uuid_ctr = 0
    /\ is_closing = FALSE
    /\ index0 = {}
    /\ NoRun
    /\ now = 0
    /\ waiter = NoWaiter
    /\ blobs = {}
    /\ last = NoOp

CountNext ==
    /\ Fresh
    /\ \E ctx \in Contexts, uris \in CountLists : IncrementActiveCount(ctx, uris)

SpecCount == CountInit /\ [][CountNext]_vars

Listings(uris, uri) == Cardinality({i \in DOMAIN uris : uris[i] = uri})
Listed1(ctx, uris, r) == r.account_id = ctx.account_id /\ Listings(uris, r.uri) > 0

\* C27: increment_active_count(ctx, uris) raises the active_count of the record of each
\* listed URI in the caller's account by 1 per listing and leaves every other field of
\* it unchanged, leaves every other record unchanged, skips the URIs that have no
\* record, and returns the number of records it updated.
C27_CountsUp ==
    last.op = "increment_active_count" =>
       /\ \A r \in last.before :
             IF Listed1(last.ctx, last.uris, r)
             THEN [r EXCEPT !.active_count = @ + Listings(last.uris, r.uri)] \in index
             ELSE r \in index
       /\ Cardinality(index) = Cardinality(last.before)
       /\ last.result =
             Cardinality({i \in DOMAIN last.uris :
                             \E r \in last.before :
                                /\ r.account_id = last.ctx.account_id
                                /\ r.uri = last.uris[i]})

(***************************************************************************)
(* VikingFS.link and VikingFS.unlink on the relation table of one          *)
(* directory, .relations.json.  The id link_N is the number N.             *)
(***************************************************************************)
MaxEntries == 3

RelationEntry(id, uris, reason) == [id |-> id, uris |-> uris, reason |-> reason]
Ids(entries) == {entries[i].id : i \in DOMAIN entries}

\* _read_relation_table: the entries of the stored table, or none when the file is
\* missing, cannot be read or cannot be parsed.
read_relation_table(table, readable) == IF readable THEN table ELSE <<>>

\* An id one above the number of entries.
count_plus_one(existing_ids) == Cardinality(existing_ids) + 1
\* next(f"link_{i}" for i in range(1, 10000) if f"link_{i}" not in existing_ids)
link_id(existing_ids) ==
    CHOOSE i \in 1..(Cardinality(existing_ids) + 1) :
       /\ i \notin existing_ids
       /\ \A j \in 1..(i - 1) : j \in existing_ids

\* list.remove(x): the list without the first x.
remove(seq, x) == Without(seq, CHOOSE i \in DOMAIN seq : seq[i] = x /\ \A j \in 1..(i - 1) : seq[j] # x)

NoCall == [op |-> "none", uris |-> <<>>, uri |-> <<>>, before |-> <<>>, id |-> 0,
           readable |-> TRUE]

\* link(from_uri, uris, reason) for a caller the gate admits.
Link(uris, reason, readable) ==
    LET entries == read_relation_table(rels.table, readable)
        id == link_id(Ids(entries))
    IN /\ Len(rels.table) < MaxEntries
       /\ rels' = [table |-> Append(entries, RelationEntry(id, uris, reason)),
                   last |-> [NoCall EXCEPT !.op = "link", !.uris = uris,
                                           !.before = rels.table, !.id = id,
                                           !.readable = readable],
                   prev |-> rels.last]
       /\ UNCHANGED <<qvars, failed, ivars, index0, retr, dag, bound_ctx, now, waiter, blobs, last>>

\* unlink(from_uri, uri) for a caller the gate admits: uri leaves the first entry that
\* lists it, and the entry leaves the table when it lists nothing else.
Unlink(uri, readable) ==
    LET entries == read_relation_table(rels.table, readable)
        found == {i \in DOMAIN entries : \E k \in DOMAIN entries[i].uris :
                                            entries[i].uris[k] = uri}
        i == CHOOSE k \in found : \A o \in found : k <= o
        rest == remove(entries[i].uris, uri)
    IN /\ rels' = [table |-> IF found = {} THEN rels.table
                             ELSE IF rest = <<>> THEN Without(entries, i)
                             ELSE [entries EXCEPT ![i].uris = rest],
                   last |-> [NoCall EXCEPT !.op = "unlink", !.uri = uri,
                                           !.before = rels.table,
                                           !.readable = readable],
                   prev |-> rels.last]
       /\ UNCHANGED <<qvars, failed, ivars, index0, retr, dag, bound_ctx, now, waiter, blobs, last>>

RelU == <<"resources", "u">>
RelV == <<"resources", "v">>
LinkLists == {<<RelU>>, <<RelV>>, <<RelU, RelV>>}
\* The tables a directory may hold at the start: their ids are pairwise distinct.
Tables ==
    {<<>>, <<RelationEntry(1, <<RelU>>, "r")>>, <<RelationEntry(2, <<RelV>>, "r")>>,
     <<RelationEntry(1, <<RelV, RelU>>, "r"), RelationEntry(3, <<RelV>>, "r")>>}

RelInit ==
    /\ QInit
    /\ failed = {}
    /\ index = {}
    /\ uuid_ctr = 0
    /\ is_closing = FALSE
    /\ index0 = {}
    /\ retr = <<>>
    /\ dag = <<>>
    /\ bound_ctx = <<>>
    /\ rels \in {[table |-> t, last |-> NoCall, prev |-> NoCall] : t \in Tables}
    /\ now = 0
    /\ waiter = NoWaiter
    /\ blobs = {}
    /\ last = NoOp

RelNext ==
    \/ \E uris \in LinkLists, readable \in BOOLEAN : Link(uris, "r", readable)
    \/ \E uri \in {RelU, RelV}, readable \in BOOLEAN : Unlink(uri, readable)

SpecRel == RelInit /\ [][RelNext]_vars

DistinctIds(entries) ==
    \A i, j \in DOMAIN entries : entries[i].id = entries[j].id => i = j
\* The smallest positive integer that is not in ids.
SmallestUnused(n, ids) == n > 0 /\ n \notin ids /\ \A k \in 1..(n - 1) : k \in ids

\* C28: link gives the new entry the id link_N where N is the smallest positive integer
\* not used by any entry _read_relation_table returned (the stored entries, or none when
\* the table cannot be read), and after any sequence of link and unlink calls the ids
\* of the table are pairwise distinct.
C28_SmallestUnusedId ==
    /\ DistinctIds(rels.table)
    /\ rels.last.op = "link" =>
          /\ rels.table[Len(rels.table)].id = rels.last.id
          /\ SmallestUnused(rels.last.id,
                            IF rels.last.readable THEN Ids(rels.last.before) ELSE {})
C28_Witness ==
    /\ rels.last.op = "link" /\ rels.last.readable
    /\ rels.prev.op = "unlink"
    /\ rels.last.id = 2
    /\ Ids(rels.last.before) = {1, 3}
    /\ Len(rels.table) = 3

\* C28 as stated: N is the smallest positive integer not used by any entry the table
\* holds when link is called.
C28_SmallestUnusedStored ==
    /\ DistinctIds(rels.table)
    /\ rels.last.op = "link" => SmallestUnused(rels.last.id, Ids(rels.last.before))

\* C29: link(F, [U], r) followed by unlink(F, U), the table read without error both
\* times, leaves the relation table of F as it was before the link, whatever entries
\* it held.
C29_LinkThenUnlink ==
    (/\ rels.last.op = "unlink" /\ rels.prev.op = "link"
     /\ rels.prev.uris = <<rels.last.uri>>
     /\ rels.last.readable /\ rels.prev.readable)
       => rels.table = rels.prev.before

\* get_relations(F) for a caller the gate admits to every related URI: the URIs of
\* every entry of the table.
get_relations(entries) == UNION {Range(entries[i].uris) : i \in DOMAIN entries}

\* C38: after unlink(F, U) has returned, the table read without error, U is not among
\* the relations of F, whatever the table held before, a URI listed in more than one
\* entry included; the entries that do not list U are unchanged.
C38_UnlinkRemoves ==
    (rels.last.op = "unlink" /\ rels.last.readable) =>
       /\ rels.last.uri \notin get_relations(rels.table)
       /\ \A i \in DOMAIN rels.last.before :
             rels.last.uri \notin Range(rels.last.before[i].uris)
                => \E j \in DOMAIN rels.table : rels.table[j] = rels.last.before[i]

(***************************************************************************)
(* _uri_to_path and _path_to_uri, one after the other, on a URI the        *)
(* caller may access.                                                      *)
(***************************************************************************)
PathComponents == {"resources", "user", "u1", "a1", "f", "L"}
PathUris ==
    {<<>>} \cup {<<c>> : c \in PathComponents}
       \cup {<<c, d>> : c, d \in PathComponents}
       \cup {<<c, d, e>> : c, d, e \in PathComponents}

\* _path_to_uri(_uri_to_path(uri, ctx), ctx)
RoundTrip(ctx, uri) ==
    /\ is_accessible(uri, ctx)
    /\ last' = [NoOp EXCEPT !.op = "round_trip", !.ctx = ctx, !.uri = uri,
                            !.returned = TRUE,
                            !.result = uri_to_path(uri, ctx),
                            !.new_uri = path_to_uri(uri_to_path(uri, ctx), ctx)]
    /\ UNCHANGED <<qvars, failed, ivars, index0, svars, now, waiter, blobs>>

PathInit ==
    /\ QInit
    /\ failed = {}
    /\ index = {}
    /\ uuid_ctr = 0
    /\ is_closing = FALSE
    /\ index0 = {}
    /\ NoRun
    /\ now = 0
    /\ waiter = NoWaiter
    /\ blobs = {}
    /\ last = NoOp

PathNext ==
    /\ Fresh
    /\ \E ctx \in Contexts, uri \in PathUris : RoundTrip(ctx, uri)

SpecPath == PathInit /\ [][PathNext]_vars

\* C30: for every URI U the caller may access, _path_to_uri(_uri_to_path(U, ctx), ctx)
\* is U, also when the first segment of U is the account id and when a component of U
\* is longer than 255 bytes.
C30_RoundTrip == last.op = "round_trip" => last.new_uri = last.uri

\* The parent came on the heap as a root URI, with the score 0.0, not as a global hit.
RootParent(b) == b.parent \in retr.root_uris \ retr.global_uris

\* C33: every child found while expanding a parent gets half its own score plus half
\* the parent's score, and its own score exactly when the parent is a root URI; a parent
\* that is not a root is blended in whatever its score, 0 included, and a global hit
\* carries its own score into its children.
C33_ScorePropagation ==
    \A b \in retr.blends :
       /\ RootParent(b) => b.parent_score = 0
       /\ b.final_score = IF RootParent(b) THEN b.child_score
                          ELSE (b.child_score + b.parent_score) \div 2

(***************************************************************************)
(* The use counter active_count under the operations that write a record:  *)
(* the embedding handler's upsert of an ingested URI, increment_active_    *)
(* count and update_uri_mapping, in any order.                             *)
(***************************************************************************)
MaxActiveCount == 2

ActiveUris == {<<"resources", "d">>, <<"resources", "n">>}
ActiveCtx == Ctx("a1", ROOT, "r0", "g0")

ActiveInit ==
    /\ QInit
    /\ failed = {}
    /\ index = {}
    /\ uuid_ctr = 0
    /\ is_closing = FALSE
    /\ index0 = {}
    /\ NoRun
    /\ now = 0
    /\ waiter = NoWaiter
    /\ blobs = {}
    /\ last = NoOp

ActiveNext ==
    \/ \E uri \in ActiveUris : HandlerUpsert("a1", uri, "", "resource")
    \/ /\ \A r \in index : r.active_count < MaxActiveCount
       /\ \E uris \in {<<u>> : u \in ActiveUris} \cup {<<u, v>> : u, v \in ActiveUris} :
             IncrementActiveCount(ActiveCtx, uris)
    \/ \E uri, new_uri \in ActiveUris : UpdateUriMapping(ActiveCtx, uri, new_uri)

SpecActive == ActiveInit /\ [][ActiveNext]_vars

\* C34: active_count is a monotone counter: no operation on the index (increment_
\* active_count, the embedding handler's upsert of a URI ingested again,
\* update_uri_mapping) lowers the active_count of a record that stays in the index.
C34_NeverDecreases ==
    [][\A r \in index : \A s \in index' :
          s.id = r.id => s.active_count >= r.active_count]_vars

(***************************************************************************)
(* CollectionAdapter._compile_filter: the filter AST compiled to the       *)
(* backend DSL, a dict.  A dict of the DSL is a record with kind "dsl".    *)
(***************************************************************************)
\* {}
EmptyDsl == [kind |-> "dsl", op |-> "empty"]
\* {"op": "must", "field": field, "conds": conds}
Must(field, conds) == [kind |-> "dsl", op |-> "must", field |-> field, conds |-> conds]
\* {"op": "and", "conds": conds}
DslAnd(conds) == [kind |-> "dsl", op |-> "and", conds |-> conds]
\* {"op": "or", "conds": conds}
DslOr(conds) == [kind |-> "dsl", op |-> "or", conds |-> conds]

\* isinstance(expr, dict)
IsDict(expr) == "kind" \in DOMAIN expr
\* The payload of a RawDSL: the dict the caller wrote.
payload(dsl) == IF dsl = "level2" THEN Must("level", {2}) ELSE EmptyDsl
\* A dict is true unless it is empty.
NonEmptyDict(c) == c # EmptyDsl
NotNone(c) == c # NoFilter

RECURSIVE compile_filter(_)
compile_filter(expr) ==
    IF expr = NoFilter THEN EmptyDsl
    ELSE IF IsDict(expr) THEN expr
    ELSE IF expr.op = "raw" THEN payload(expr.dsl)
    ELSE IF expr.op \in {"and", "or"} THEN
       LET given == SelectSeq(expr.conds, NotNone)
           conds == SelectSeq([i \in DOMAIN given |-> compile_filter(given[i])], NonEmptyDict)
       IN IF conds = <<>> THEN EmptyDsl
          ELSE IF Len(conds) = 1 THEN conds[1]
          ELSE IF expr.op = "and" THEN DslAnd(conds) ELSE DslOr(conds)
    ELSE IF expr.op = "eq" THEN Must(expr.field, {expr.value})
    ELSE Must(expr.field, expr.values)

\* The records a dict of the DSL selects: every record for the empty dict, the records
\* whose field holds one of the values for must.
RECURSIVE DslMatches(_, _)
DslMatches(d, r) ==
    CASE d.op = "empty" -> TRUE
      [] d.op = "must" -> r[d.field] \in d.conds
      [] d.op = "and" -> \A i \in 1..Len(d.conds) : DslMatches(d.conds[i], r)
      [] d.op = "or" -> \E i \in 1..Len(d.conds) : DslMatches(d.conds[i], r)

\* The records a filter given to the adapter selects: an expression, or a dict.
Selects(expr, r) == IF IsDict(expr) THEN DslMatches(expr, r) ELSE Matches(expr, r)

\* compile_filter(expr)
CompileFilter(expr) ==
    /\ last' = [NoOp EXCEPT !.op = "compile_filter", !.returned = TRUE,
                            !.query = expr, !.result = compile_filter(expr)]
    /\ UNCHANGED <<qvars, failed, ivars, index0, svars, now, waiter, blobs>>

\* Seq(S) up to two elements.
UpToTwo(S) == {<<>>} \cup {<<a>> : a \in S} \cup {<<a, b>> : a, b \in S}

FilterAtoms ==
    {Eq("account_id", "a1"), In("owner_space", {"u1", ""}),
     Eq("context_type", "resource"), RawDSL("level2")}
\* And and Or of zero, one and two conditions, a missing condition among them.
FilterInner ==
    FilterAtoms \cup
    {NoFilter, RawDSL(""), And(<<>>), Or(<<>>), And(<<Eq("account_id", "a1")>>),
     Or(<<Eq("account_id", "a1"), In("owner_space", {"u1", ""})>>)}
FilterExprs ==
    {NoFilter, Must("account_id", {"a1"}), EmptyDsl} \cup FilterAtoms
       \cup {And(s) : s \in UpToTwo(FilterInner)} \cup {Or(s) : s \in UpToTwo(FilterInner)}

CompileRecords ==
    [account_id : {"a1", "a2"}, owner_space : {"", "u1", "u2"},
     context_type : {"resource", "memory"}, level : {1, 2}]

CompileInit ==
    /\ QInit
    /\ failed = {}
    /\ index = {}
    /\ uuid_ctr = 0
    /\ is_closing = FALSE
    /\ index0 = {}
    /\ NoRun
    /\ now = 0
    /\ waiter = NoWaiter
    /\ blobs = {}
    /\ last = NoOp

CompileNext ==
    /\ Fresh
    /\ \E expr \in FilterExprs : CompileFilter(expr)

SpecCompile == CompileInit /\ [][CompileNext]_vars

\* C31: compile_filter returns, for And([Eq(a, b), In(c, [d, e])]), the dict {op: and,
\* conds: [{op: must, field: a, conds: [b]}, {op: must, field: c, conds: [d, e]}]}, a
\* dict unchanged, and for every nesting of And and Or, those of zero or one condition
\* included, a dict that selects the same records as the expression.
C31_CompiledSelectsSame ==
    last.op = "compile_filter" =>
       /\ last.query = And(<<Eq("account_id", "a1"), In("owner_space", {"u1", ""})>>)
             => last.result = DslAnd(<<Must("account_id", {"a1"}),
                                       Must("owner_space", {"u1", ""})>>)
       /\ IsDict(last.query) => last.result = last.query
       /\ \A r \in CompileRecords : DslMatches(last.result, r) = Selects(last.query, r)

(***************************************************************************)
(* VikingFS.bind_request_context and _ctx_or_default: _bound_ctx is a      *)
(* ContextVar, which holds one value in the context of each task; a task   *)
(* made with asyncio.create_task runs in a copy of its maker's context.    *)
(***************************************************************************)
MaxDepth == 2

BindTasks == {"t1", "t2", "t3"}
\* None
None == [none |-> TRUE]
\* The value of the variable: the context bound, and the task that bound it.
Bound(ctx, t) == [ctx |-> ctx, by |-> t]
\* contextvars.ContextVar("vikingfs_bound_ctx", default=None)
Unbound == Bound(None, "nobody")

\* _default_ctx()
default_ctx == Ctx("default", ROOT, "default", "default")

\* _ctx_or_default(ctx)
ctx_or_default(ctx, bound) ==
    IF ctx # None THEN ctx
    ELSE IF bound.ctx # None THEN bound.ctx ELSE default_ctx

\* A reset that forgets the token.
reset_to_default(token) == Unbound
\* self._bound_ctx.reset(token): the variable holds again what it held before the set
\* that made the token.
reset(token) == token.old_value

NoBindCall == [op |-> "none", task |-> "", ctx |-> None, result |-> None, raised |-> FALSE]

NoBinding ==
    [alive |-> {"t1", "t2"},
     var |-> [t \in BindTasks |-> Unbound],
     tokens |-> [t \in BindTasks |-> <<>>],
     scopes |-> [t \in BindTasks |-> <<>>],
     inherited |-> [t \in BindTasks |-> Unbound],
     call |-> NoBindCall]

BindUnchanged ==
    UNCHANGED <<qvars, failed, ivars, index0, retr, dag, rels, now, waiter, blobs, last>>

\* with bind_request_context(ctx): token = self._bound_ctx.set(ctx)
BindEnter(t, ctx) ==
    /\ t \in bound_ctx.alive
    /\ Len(bound_ctx.tokens[t]) < MaxDepth
    /\ bound_ctx' = [bound_ctx EXCEPT
                       !.tokens[t] = Append(@, [old_value |-> bound_ctx.var[t]]),
                       !.scopes[t] = Append(@, [ctx |-> ctx, before |-> bound_ctx.var[t]]),
                       !.var[t] = Bound(ctx, t),
                       !.call = [NoBindCall EXCEPT !.op = "enter", !.task = t, !.ctx = ctx]]
    /\ BindUnchanged

\* The body of the innermost scope ends, normally or by an exception:
\* finally: self._bound_ctx.reset(token)
BindExit(t, raised) ==
    /\ t \in bound_ctx.alive
    /\ bound_ctx.tokens[t] # <<>>
    /\ LET n == Len(bound_ctx.tokens[t])
       IN bound_ctx' = [bound_ctx EXCEPT
                          !.var[t] = reset(bound_ctx.tokens[t][n]),
                          !.tokens[t] = Take(@, n - 1),
                          !.scopes[t] = Take(@, n - 1),
                          !.call = [NoBindCall EXCEPT
                                      !.op = "exit", !.task = t, !.raised = raised,
                                      !.ctx = bound_ctx.scopes[t][n].before.ctx]]
    /\ BindUnchanged

\* A VikingFS call of task t, given ctx or None: real_ctx = self._ctx_or_default(ctx)
BindCall(t, ctx) ==
    /\ t \in bound_ctx.alive
    /\ bound_ctx' = [bound_ctx EXCEPT
                       !.call = [NoBindCall EXCEPT
                                   !.op = "call", !.task = t, !.ctx = ctx,
                                   !.result = ctx_or_default(ctx, bound_ctx.var[t])]]
    /\ BindUnchanged

\* asyncio.create_task in task t: the new task runs in a copy of the context of t.
CreateTask(t, child) ==
    /\ t \in bound_ctx.alive
    /\ child \notin bound_ctx.alive
    /\ bound_ctx' = [bound_ctx EXCEPT
                       !.alive = @ \cup {child},
                       !.var[child] = bound_ctx.var[t],
                       !.inherited[child] = bound_ctx.var[t],
                       !.call = [NoBindCall EXCEPT !.op = "create_task", !.task = t]]
    /\ BindUnchanged

BindInit ==
    /\ QInit
    /\ failed = {}
    /\ index = {}
    /\ uuid_ctr = 0
    /\ is_closing = FALSE
    /\ index0 = {}
    /\ retr = <<>>
    /\ dag = <<>>
    /\ rels = <<>>
    /\ bound_ctx = NoBinding
    /\ now = 0
    /\ waiter = NoWaiter
    /\ blobs = {}
    /\ last = NoOp

\* The contexts the tasks bind and pass.
BindContexts == {Ctx("a1", USER, "u1", "g1"), Ctx("a2", USER, "u2", "g2")}

BindNext ==
    \/ \E t \in BindTasks, ctx \in BindContexts : BindEnter(t, ctx)
    \/ \E t \in BindTasks, raised \in BOOLEAN : BindExit(t, raised)
    \/ \E t \in BindTasks, ctx \in BindContexts \cup {None} : BindCall(t, ctx)
    \/ \E t, child \in BindTasks : CreateTask(t, child)

SpecBind == BindInit /\ [][BindNext]_vars

\* What a call of task t without ctx is to use: the context of the innermost scope t
\* has open, else what t was created with.
InScope(t) ==
    IF bound_ctx.scopes[t] # <<>>
    THEN Bound(bound_ctx.scopes[t][Len(bound_ctx.scopes[t])].ctx, t)
    ELSE bound_ctx.inherited[t]

\* C36: bind_request_context(ctx) makes ctx the default of the calls without ctx made
\* inside its scope: on scope exit, normal or by exception, the bound value is what it
\* was before entry (a nested bind restores the outer one); a ctx argument takes
\* precedence; and a binding made in one task is visible to another task only if that
\* task was created inside the scope, as the value it started with.
C36_ScopedBinding ==
    /\ \A t \in bound_ctx.alive : bound_ctx.var[t] = InScope(t)
    /\ bound_ctx.call.op = "exit" =>
          bound_ctx.var[bound_ctx.call.task].ctx = bound_ctx.call.ctx
    /\ bound_ctx.call.op = "call" =>
          bound_ctx.call.result =
             IF bound_ctx.call.ctx # None THEN bound_ctx.call.ctx
             ELSE IF InScope(bound_ctx.call.task).ctx # None
                  THEN InScope(bound_ctx.call.task).ctx ELSE default_ctx
    /\ \A t \in bound_ctx.alive :
          bound_ctx.var[t].by \notin {t, "nobody"} =>
             /\ bound_ctx.scopes[t] = <<>>
             /\ bound_ctx.var[t] = bound_ctx.inherited[t]
\* A nested scope of t2 has ended by an exception and the outer binding is back, while
\* t1 holds a binding of its own.
C36_Witness ==
    /\ bound_ctx.call.op = "exit" /\ bound_ctx.call.raised
    /\ bound_ctx.call.task = "t2"
    /\ Len(bound_ctx.scopes["t2"]) = 1
    /\ bound_ctx.var["t2"].ctx = bound_ctx.scopes["t2"][1].ctx
    /\ bound_ctx.scopes["t1"] # <<>>
    /\ bound_ctx.var["t1"].ctx # bound_ctx.var["t2"].ctx

\* C36 as stated: a binding made in one task is never visible to another task.
C36_NeverVisibleToOthers ==
    \A t \in bound_ctx.alive : bound_ctx.var[t].by \in {t, "nobody"}

(***************************************************************************)
(* VikingFS.ls, tree and glob: the listings, over the files of the blob    *)
(* store; a directory is a proper prefix of the path of a file.            *)
(***************************************************************************)
\* agfs.ls(path): the names of the entries of the directory.
agfs_ls(files, path) == {f[Len(path) + 1] : f \in {g \in files : StartsWithSlash(g, path)}}
IsDir(files, path) == \E f \in files : StartsWithSlash(f, path)

\* A listing that returns what the store lists.
ls_everything(files, path) == agfs_ls(files, path)
\* _ls_entries(path): at the account root the entries named like a scope, elsewhere the
\* entries that are not internal directories.
ls_entries(files, path) ==
    IF Len(path) = 2 /\ path[1] = "local"
    THEN {name \in agfs_ls(files, path) : name \in VALID_SCOPES}
    ELSE {name \in agfs_ls(files, path) : name \notin INTERNAL_DIRS}

\* name.startswith(".")
HiddenNames == {".abstract.md"}
\* if entry.get("isDir") ... elif not name.startswith(".") ... elif show_all_hidden
Shown(files, path, name, show_all_hidden) ==
    IsDir(files, path \o <<name>>) \/ name \notin HiddenNames \/ show_all_hidden

\* _ls_original: the URIs of the entries of path that the caller may access.
ls_original(files, path, show_all_hidden, ctx) ==
    {path_to_uri(path \o <<name>>, ctx) :
        name \in {n \in ls_entries(files, path) :
                     /\ is_accessible(path_to_uri(path \o <<n>>, ctx), ctx)
                     /\ Shown(files, path, n, show_all_hidden)}}

\* _tree_original, _walk(current_path, current_rel): the rel_path of every entry the
\* walk appends; a directory the caller may not access is not walked.
RECURSIVE walk(_, _, _, _, _)
walk(files, path, rel, show_all_hidden, ctx) ==
    UNION {IF ~is_accessible(path_to_uri(path \o rel \o <<name>>, ctx), ctx) THEN {}
           ELSE IF IsDir(files, path \o rel \o <<name>>)
                THEN {rel \o <<name>>}
                        \cup walk(files, path, rel \o <<name>>, show_all_hidden, ctx)
           ELSE IF name \notin HiddenNames \/ show_all_hidden THEN {rel \o <<name>>}
           ELSE {} : name \in ls_entries(files, path \o rel)}

\* PurePath(rel_path).match(pattern) for the patterns "*" and a file name.
GlobPatterns == {"*", "f"}
match(rel, pattern) == pattern = "*" \/ rel[Len(rel)] = pattern

ListingOps == {"ls", "tree", "glob"}

\* ls(uri), tree(uri) or glob(pattern, uri): _ensure_access, then the listing.
Listing(op, ctx, uri, show_all_hidden, pattern) ==
    LET path == uri_to_path(uri, ctx)
        rels_found == walk(blobs, path, <<>>, show_all_hidden /\ op # "glob", ctx)
        denied == ~is_accessible(uri, ctx)
        found == IsDir(blobs, path)
    IN /\ op \in ListingOps
       /\ op = "glob" \/ pattern = "*"
       /\ last' = [NoOp EXCEPT
                     !.op = op, !.ctx = ctx, !.uri = uri, !.denied = denied,
                     !.missing = ~denied /\ ~found,
                     !.returned = ~denied /\ found,
                     !.before = blobs,
                     !.result =
                        IF denied \/ ~found THEN {}
                        ELSE IF op = "ls"
                             THEN ls_original(blobs, path, show_all_hidden, ctx)
                        ELSE IF op = "tree"
                             THEN {path_to_uri(path \o rel, ctx) : rel \in rels_found}
                        ELSE {uri \o rel : rel \in {x \in rels_found : match(x, pattern)}}]
       /\ UNCHANGED <<qvars, failed, ivars, index0, svars, now, waiter, blobs>>

ListPaths ==
    {<<"local", "a1", "_system", "x">>, <<"local", "a1", "junk", "x">>,
     <<"local", "a1", "user", "u1", "_system", "y">>, <<"local", "a1", "user", "u1", "f">>,
     <<"local", "a1", "user", "u2", "f">>, <<"local", "a1", "resources", ".abstract.md">>,
     <<"local", "a1", "resources", "d", "f">>}
ListUris ==
    {<<>>, <<"user">>, <<"user", "u1">>, <<"user", "u2">>, <<"resources">>, <<"_system">>}
SystemUris == {<<"_system">>, <<"_system", "x">>}

ListInit ==
    /\ QInit
    /\ failed = {}
    /\ index = {}
    /\ uuid_ctr = 0
    /\ is_closing = FALSE
    /\ index0 = {}
    /\ NoRun
    /\ now = 0
    /\ waiter = NoWaiter
    /\ blobs \in SUBSET ListPaths
    /\ last = NoOp

ListNext ==
    \/ /\ Fresh
       /\ \E op \in ListingOps, ctx \in Contexts, uri \in ListUris, show \in BOOLEAN,
             pattern \in GlobPatterns : Listing(op, ctx, uri, show, pattern)
    \/ /\ Fresh
       /\ \E ctx \in Contexts, uri \in SystemUris, ok \in BOOLEAN,
             op \in FsOps \ (TwoUriOps \cup ListingOps) : FsCall(op, ctx, uri, <<>>, ok)

SpecList == ListInit /\ [][ListNext]_vars

\* C37: the reserved _system scope is never exposed: no listing (ls, tree, glob) returns
\* an entry named _system, for any role; a listing of the account root returns
\* whitelisted scopes only; every entry a USER gets from a listing passes the access
\* gate; and every operation of a USER on a _system URI is rejected.
C37_SystemHidden ==
    /\ last.op \in ListingOps =>
          \A e \in last.result :
             /\ e # <<>>
             /\ \A i \in (Len(last.uri) + 1)..Len(e) : e[i] # "_system"
             /\ last.uri = <<>> => e[1] \in VALID_SCOPES
             /\ last.ctx.role = USER => is_accessible(e, last.ctx)
    /\ (last.op # "none" /\ last.ctx.role = USER
        /\ last.uri # <<>> /\ last.uri[1] = "_system") =>
          /\ ~last.returned
          /\ ~last.touched

(***************************************************************************)
(* TextEmbeddingHandler.on_dequeue on the Embedding queue, the embedder's  *)
(* answer to the last message kept.                                        *)
(***************************************************************************)
\* on_dequeue from the embedding on: what the embedder returned for message m, and the
\* index as it was before.
OnDequeue(m, ctype, res, db_fail) ==
    /\ EmbeddingWrite(m, ctype, res, db_fail)
    /\ last' = [NoOp EXCEPT !.op = "on_dequeue", !.status = res, !.below = m,
                            !.before = index, !.removed = error_count[QueueOf(m)],
                            !.update_failed = db_fail]
    /\ UNCHANGED <<index0, svars, now, waiter, blobs>>

EmbedNext ==
    \/ Start
    \/ \E a \in BOOLEAN : GetQueue(EMBEDDING, "text_embedding", a)
    \/ \E u \in MsgUris : Enqueue(EMBEDDING, u, "text", "any")
    \/ WorkerPrune(EMBEDDING)
    \/ \E b \in BOOLEAN : WorkerBreak(EMBEDDING, b)
    \/ WorkerDequeueRaw(EMBEDDING)
    \/ WorkerDispatch(EMBEDDING)
    \/ \E m \in MsgIds, e \in BOOLEAN : EmbeddingStart(m, "text", e)
    \/ \E m \in MsgIds, c \in ContextTypes, res \in EmbedResults, f \in BOOLEAN :
          OnDequeue(m, c, res, f)
    \/ CloseStore

SpecEmbed == Init /\ [][EmbedNext]_vars

\* C35: when the embedder returns a dense vector whose length is not the configured
\* dimension, the handler reports one error and no success, upserts nothing and leaves
\* the index as it was; the message is dropped: its task is done and it is not put back
\* on the queue.
C35_DimensionMismatch ==
    (last.op = "on_dequeue" /\ last.status = "baddim") =>
       LET m == last.below
       IN /\ index = last.before
          /\ reports[m] = 1
          /\ m \in failed
          /\ error_count[QueueOf(m)] >= last.removed + 1
          /\ error_count[QueueOf(m)] = FailedOn(QueueOf(m))
          /\ task[m] = "done"
          /\ \A i \in 1..Len(fifo[QueueOf(m)]) : fifo[QueueOf(m)][i] # m
\* The second message fails the dimension check after the first has been indexed.
C35_Witness ==
    /\ last.op = "on_dequeue" /\ last.status = "baddim"
    /\ last.below = 2
    /\ last.before # {}
    /\ reports[1] = 1 /\ 1 \notin failed
    /\ error_count[EMBEDDING] = 1

====
